---- MODULE Spec2Model ----
(***************************************************************************)
(* A model of the inference pipeline of launchpad.AI: the model invoker    *)
(* with fallback (src/src/ai_agent.py), the score extraction               *)
(* (src/src/job_searcher.py), the resume section parser and renderer       *)
(* (src/src/document_generator.py) and the career-path parser, roadmap     *)
(* builder and report renderer (src/src/career_planner.py).                *)
(*                                                                         *)
(* A Python str is modelled as a sequence of one-character strings, so     *)
(* that split, strip, lower, substring search and the regular expressions  *)
(* are computed character by character as the code computes them.          *)
(***************************************************************************)
EXTENDS Integers, Sequences, FiniteSets, TLC

VARIABLES
    \* ---- LaunchPadAgent (src/src/ai_agent.py) ----
    model_configs,    \* self.model_configs: registered name -> body_format
    primary_model,    \* self.primary_model
    fallback_models,  \* self.fallback_models
    backend,          \* what the endpoint answers to the call at each list position
    agent_pc,         \* position of process_message / _invoke_claude
    models_to_try,    \* local of _invoke_claude
    idx,              \* position of the for loop in models_to_try (1-based)
    calls,            \* list positions for which invoke_model was issued, in order
    logged,           \* list positions whose failure was logged (logger.error)
    invoke_out,       \* outcome of _invoke_claude: a return value or a raise
    reply,            \* return value of process_message
    \* ---- JobSearcher._extract_match_score (src/src/job_searcher.py) ----
    analysis,         \* the argument: the analysis text
    score_pc,         \* "idle", "start", "done" or "raised"
    score,            \* the returned integer
    score_branch,     \* which branch returned: 1..3 a pattern, 4 the sentiment bands
    \* ---- DocumentGenerator.create_resume (src/src/document_generator.py) ----
    personal_info,    \* argument of create_resume
    resume_answer,    \* what the endpoint answers to the resume prompt
    resume_pc,        \* "idle", "start", "parsed", "rendered" or "reparsed"
    sections,         \* the Dict of _generate_resume_content
    rendered,         \* the str returned by _format_resume
    reparsed,         \* _parse_resume_content applied to the rendered resume
    \* ---- CareerPlanner.suggest_paths (src/src/career_planner.py) ----
    career_answer,    \* what the endpoint answers to the suggestions prompt
    career_pc,        \* "idle", "start", "analyzed", "roadmaps" or "done"
    profile_analysis, \* profile_analysis["analysis"]
    career_suggestions, \* the List[Dict] of _generate_career_suggestions
    roadmap_calls,    \* the calls of _create_career_roadmaps in order: title asked for, answer
    roadmaps,         \* the Dict of _create_career_roadmaps: title -> text
    report,           \* the result of _format_career_suggestions
    planner_paths,    \* self.career_paths of the CareerPlanner object
    \* ---- SkillAnalyzer.analyze (src/src/skill_analyzer.py) ----
    user_input,       \* argument of analyze
    resume_text,      \* argument of analyze
    skill_answers,    \* what the endpoint answers to the three prompts of analyze
    skill_pc,         \* "idle", "start", "extracted", "gaps", "recommended" or "done"
    extracted_skills, \* the Dict of _extract_skills: one list per category
    gap_analysis,     \* gap_analysis["analysis"]
    recommendations,  \* the str of _generate_recommendations
    skill_result,     \* what analyze returns
    analyzer_categories, \* self.skill_categories of the SkillAnalyzer object
    \* ---- DocumentGenerator.create_cover_letter (src/src/document_generator.py) ----
    cover_answer,     \* what the endpoint answers to the cover letter prompt
    cover_pc,         \* "idle", "start", "generated" or "done"
    cover_letter,     \* the str of _generate_cover_letter_content
    cover_result,     \* what create_cover_letter returns
    \* ---- JobSearcher.search (src/src/job_searcher.py) ----
    job_role,         \* argument of search
    job_location,     \* argument of search
    job_draws,        \* what the random module hands to _generate_additional_jobs
    job_endpoint,     \* what the endpoint does at each call of the search, in order
    job_now,          \* datetime.now() as last read: microseconds after 12:00:00
    job_pc,           \* "idle", "start", "filtered", "analyzed", "done" or "ready"
    jobs,             \* the list _filter_jobs returns, its dicts as the loop leaves them
    job_origins,      \* for each dict of jobs the place of self.job_database whose dict
                      \* it is, 0 for a dict made during the search
    analyzed_jobs,    \* analyzed_jobs of _analyze_job_matches, sorted once the loop is over
    job_calls,        \* the calls of _get_job_match_analysis in order: returned or raised
    job_result,       \* what search returns, one piece per `result +=` statement
    searcher_database, \* self.job_database as the searches so far left it
    \* ---- LaunchPadAgent._extract_paths (src/src/ai_agent.py) ----
    paths_response,   \* the argument of _extract_paths
    paths_pc,         \* "idle", "start" or "done"
    paths,            \* the list _extract_paths returns
    \* ---- AWSServices (src/src/aws_services.py) ----
    gateway_pc,       \* "idle", "new" (being constructed) or "ready"
    bound_tables,     \* how many of the three table attributes _initialize_tables bound
    user_profiles,    \* the items of the user profiles table
    career_plans,     \* the items of the career plans table
    job_applications, \* the items of the job applications table
    profiles_replica, \* the user profiles table as a get_item without ConsistentRead sees it
    plans_index,      \* user-id-index of the career plans table, as far as it has caught up
    applications_index, \* user-id-index of the job applications table, likewise
    utcnow,           \* the last reading of datetime.utcnow()
    uuid_count,       \* how many identifiers uuid4 has handed out
    gateway_pending,  \* the writes that built their item and wait for the table
    gateway_log,      \* the operations that returned, each with what it returned
    \* ---- LaunchPadAgent._build_context (src/src/ai_agent.py) ----
    context_message,  \* the message argument of _build_context
    context_history,  \* the history argument: a list of (user_msg, agent_msg) pairs
    context_pc,       \* "idle", "start", "loop", "message" or "done"
    context_window,   \* what is left of history[-3:] for the loop
    context,          \* the prompt built so far
    \* ---- AWSServices.save_document_to_s3 (src/src/aws_services.py) ----
    s3_pc,            \* "idle" or "ready"
    s3_now,           \* the last reading of datetime.utcnow(), in ticks
    s3_objects,       \* the objects of the bucket: key -> body
    s3_pending,       \* the calls that built their key and wait for put_object
    s3_log,           \* the calls that returned, each with what it stored and returned
    \* ---- LaunchPadAI.chat_with_agent (src/app.py) ----
    chat_message,     \* the message argument of chat_with_agent
    chat_history,     \* the history list, as the chatbot holds it and the handler mutates it
    chat_pc,          \* "idle", "ready", "called", "answered" or "returned"
    chat_called_with, \* the pairs of history when the handler was called
    chat_response,    \* what process_message returned
    chat_returned,    \* the tuple chat_with_agent returned
    \* ---- create_progress_tracker, update_progress (src/src/utils.py) ----
    tracker_pc,       \* "idle", "new" or "tracking"
    tracker,          \* the dict create_progress_tracker returned, as update_progress left it
    tracker_now,      \* the last reading of datetime.now()
    \* ---- LaunchPadAI (src/app.py) ----
    under_way,        \* the handlers that are serving a request
    request_log       \* the requests served, in the order of their returns, each with what
                      \* it was given and what it returned

agent_vars == <<model_configs, primary_model, fallback_models, backend, agent_pc,
                models_to_try, idx, calls, logged, invoke_out, reply>>

score_vars == <<analysis, score_pc, score, score_branch>>

resume_vars == <<personal_info, resume_answer, resume_pc, sections, rendered, reparsed>>

career_vars == <<career_answer, career_pc, profile_analysis, career_suggestions,
                 roadmap_calls, roadmaps, report, planner_paths>>

skill_vars == <<user_input, resume_text, skill_answers, skill_pc, extracted_skills,
                gap_analysis, recommendations, skill_result, analyzer_categories>>

cover_vars == <<cover_answer, cover_pc, cover_letter, cover_result>>

job_vars == <<job_role, job_location, job_draws, job_endpoint, job_now, job_pc, jobs,
              job_origins, analyzed_jobs, job_calls, job_result, searcher_database>>

paths_vars == <<paths_response, paths_pc, paths>>

gateway_vars == <<gateway_pc, bound_tables, user_profiles, career_plans, job_applications,
                  profiles_replica, plans_index, applications_index,
                  utcnow, uuid_count, gateway_pending, gateway_log>>

context_vars == <<context_message, context_history, context_pc, context_window, context>>

bucket_vars == <<s3_pc, s3_now, s3_objects, s3_pending, s3_log>>

chat_vars == <<chat_message, chat_history, chat_pc, chat_called_with, chat_response,
               chat_returned>>

tracker_vars == <<tracker_pc, tracker, tracker_now>>

app_vars == <<under_way, request_log>>

vars == <<agent_vars, score_vars, resume_vars, career_vars, skill_vars, cover_vars, job_vars,
          paths_vars, gateway_vars, context_vars, bucket_vars, chat_vars, tracker_vars,
          app_vars>>

\* what the steps of one component leave alone: the other components, and
\* (Frame) the requests of the app
AgentRest == UNCHANGED <<score_vars, resume_vars, career_vars, skill_vars, cover_vars,
                         job_vars, paths_vars, gateway_vars, context_vars, bucket_vars,
                         chat_vars, tracker_vars>>
AgentFrame == AgentRest /\ UNCHANGED app_vars
ScoreFrame == UNCHANGED <<agent_vars, resume_vars, career_vars, skill_vars, cover_vars,
                          job_vars, paths_vars, gateway_vars, context_vars, bucket_vars,
                          chat_vars, tracker_vars, app_vars>>
ResumeRest == UNCHANGED <<agent_vars, score_vars, career_vars, skill_vars, cover_vars,
                          job_vars, paths_vars, gateway_vars, context_vars, bucket_vars,
                          chat_vars, tracker_vars>>
ResumeFrame == ResumeRest /\ UNCHANGED app_vars
CareerRest == UNCHANGED <<agent_vars, score_vars, resume_vars, skill_vars, cover_vars,
                          job_vars, paths_vars, gateway_vars, context_vars, bucket_vars,
                          chat_vars, tracker_vars>>
CareerFrame == CareerRest /\ UNCHANGED app_vars
SkillRest == UNCHANGED <<agent_vars, score_vars, resume_vars, career_vars, cover_vars,
                         job_vars, paths_vars, gateway_vars, context_vars, bucket_vars,
                         chat_vars, tracker_vars>>
SkillFrame == SkillRest /\ UNCHANGED app_vars
CoverFrame == UNCHANGED <<agent_vars, score_vars, resume_vars, career_vars, skill_vars,
                          job_vars, paths_vars, gateway_vars, context_vars, bucket_vars,
                          chat_vars, tracker_vars, app_vars>>
JobRest == UNCHANGED <<agent_vars, score_vars, resume_vars, career_vars, skill_vars,
                       cover_vars, paths_vars, gateway_vars, context_vars, bucket_vars,
                       chat_vars, tracker_vars>>
JobFrame == JobRest /\ UNCHANGED app_vars
PathsFrame == UNCHANGED <<agent_vars, score_vars, resume_vars, career_vars, skill_vars,
                          cover_vars, job_vars, gateway_vars, context_vars, bucket_vars,
                          chat_vars, tracker_vars, app_vars>>
GatewayFrame == UNCHANGED <<agent_vars, score_vars, resume_vars, career_vars, skill_vars,
                            cover_vars, job_vars, paths_vars, context_vars, bucket_vars,
                            chat_vars, tracker_vars, app_vars>>
ContextFrame == UNCHANGED <<agent_vars, score_vars, resume_vars, career_vars, skill_vars,
                            cover_vars, job_vars, paths_vars, gateway_vars, bucket_vars,
                            chat_vars, tracker_vars, app_vars>>
BucketFrame == UNCHANGED <<agent_vars, score_vars, resume_vars, career_vars, skill_vars,
                           cover_vars, job_vars, paths_vars, gateway_vars, context_vars,
                           chat_vars, tracker_vars, app_vars>>
ChatFrame == UNCHANGED <<agent_vars, score_vars, resume_vars, career_vars, skill_vars,
                         cover_vars, job_vars, paths_vars, gateway_vars, context_vars,
                         bucket_vars, tracker_vars, app_vars>>
TrackerFrame == UNCHANGED <<agent_vars, score_vars, resume_vars, career_vars, skill_vars,
                            cover_vars, job_vars, paths_vars, gateway_vars, context_vars,
                            bucket_vars, chat_vars, app_vars>>

(***************************************************************************)
(* Python str operations on sequences of characters.                       *)
(***************************************************************************)
UpperChars == <<"A", "B", "C", "D", "E", "F", "G", "H", "I", "J", "K", "L", "M",
                "N", "O", "P", "Q", "R", "S", "T", "U", "V", "W", "X", "Y", "Z">>
LowerChars == <<"a", "b", "c", "d", "e", "f", "g", "h", "i", "j", "k", "l", "m",
                "n", "o", "p", "q", "r", "s", "t", "u", "v", "w", "x", "y", "z">>
DigitChars == <<"0", "1", "2", "3", "4", "5", "6", "7", "8", "9">>

\* A character is a string: a printable ASCII character other than the grave
\* accent, "\t", "\n", "\r" and "\f" stand for themselves, every other character
\* is written "U+" followed by its code point in hexadecimal, on four digits at
\* least (Unicode 14.0.0, the tables of the Python 3.11 the repository runs on).

\* the characters str.isspace() accepts; the regex class \s of a str pattern
\* accepts the same ones
SpaceChars ==
    {"\t", "\n", "U+000B", "\f", "\r", "U+001C", "U+001D", "U+001E", "U+001F", " ", "U+0085",
     "U+00A0", "U+1680", "U+2000", "U+2001", "U+2002", "U+2003", "U+2004", "U+2005", "U+2006",
     "U+2007", "U+2008", "U+2009", "U+200A", "U+2028", "U+2029", "U+202F", "U+205F", "U+3000"}

\* the decimal digits: DecimalChars[d + 1] holds the characters of value d. They
\* are the characters the regex class \d of a str pattern accepts and the ones
\* int() reads
DecimalChars ==
    <<{"0", "U+0660", "U+06F0", "U+07C0", "U+0966", "U+09E6", "U+0A66", "U+0AE6", "U+0B66",
       "U+0BE6", "U+0C66", "U+0CE6", "U+0D66", "U+0DE6", "U+0E50", "U+0ED0", "U+0F20", "U+1040",
       "U+1090", "U+17E0", "U+1810", "U+1946", "U+19D0", "U+1A80", "U+1A90", "U+1B50", "U+1BB0",
       "U+1C40", "U+1C50", "U+A620", "U+A8D0", "U+A900", "U+A9D0", "U+A9F0", "U+AA50", "U+ABF0",
       "U+FF10", "U+104A0", "U+10D30", "U+11066", "U+110F0", "U+11136", "U+111D0", "U+112F0",
       "U+11450", "U+114D0", "U+11650", "U+116C0", "U+11730", "U+118E0", "U+11950", "U+11C50",
       "U+11D50", "U+11DA0", "U+16A60", "U+16AC0", "U+16B50", "U+1D7CE", "U+1D7D8", "U+1D7E2",
       "U+1D7EC", "U+1D7F6", "U+1E140", "U+1E2F0", "U+1E950", "U+1FBF0"},
      {"1", "U+0661", "U+06F1", "U+07C1", "U+0967", "U+09E7", "U+0A67", "U+0AE7", "U+0B67",
       "U+0BE7", "U+0C67", "U+0CE7", "U+0D67", "U+0DE7", "U+0E51", "U+0ED1", "U+0F21", "U+1041",
       "U+1091", "U+17E1", "U+1811", "U+1947", "U+19D1", "U+1A81", "U+1A91", "U+1B51", "U+1BB1",
       "U+1C41", "U+1C51", "U+A621", "U+A8D1", "U+A901", "U+A9D1", "U+A9F1", "U+AA51", "U+ABF1",
       "U+FF11", "U+104A1", "U+10D31", "U+11067", "U+110F1", "U+11137", "U+111D1", "U+112F1",
       "U+11451", "U+114D1", "U+11651", "U+116C1", "U+11731", "U+118E1", "U+11951", "U+11C51",
       "U+11D51", "U+11DA1", "U+16A61", "U+16AC1", "U+16B51", "U+1D7CF", "U+1D7D9", "U+1D7E3",
       "U+1D7ED", "U+1D7F7", "U+1E141", "U+1E2F1", "U+1E951", "U+1FBF1"},
      {"2", "U+0662", "U+06F2", "U+07C2", "U+0968", "U+09E8", "U+0A68", "U+0AE8", "U+0B68",
       "U+0BE8", "U+0C68", "U+0CE8", "U+0D68", "U+0DE8", "U+0E52", "U+0ED2", "U+0F22", "U+1042",
       "U+1092", "U+17E2", "U+1812", "U+1948", "U+19D2", "U+1A82", "U+1A92", "U+1B52", "U+1BB2",
       "U+1C42", "U+1C52", "U+A622", "U+A8D2", "U+A902", "U+A9D2", "U+A9F2", "U+AA52", "U+ABF2",
       "U+FF12", "U+104A2", "U+10D32", "U+11068", "U+110F2", "U+11138", "U+111D2", "U+112F2",
       "U+11452", "U+114D2", "U+11652", "U+116C2", "U+11732", "U+118E2", "U+11952", "U+11C52",
       "U+11D52", "U+11DA2", "U+16A62", "U+16AC2", "U+16B52", "U+1D7D0", "U+1D7DA", "U+1D7E4",
       "U+1D7EE", "U+1D7F8", "U+1E142", "U+1E2F2", "U+1E952", "U+1FBF2"},
      {"3", "U+0663", "U+06F3", "U+07C3", "U+0969", "U+09E9", "U+0A69", "U+0AE9", "U+0B69",
       "U+0BE9", "U+0C69", "U+0CE9", "U+0D69", "U+0DE9", "U+0E53", "U+0ED3", "U+0F23", "U+1043",
       "U+1093", "U+17E3", "U+1813", "U+1949", "U+19D3", "U+1A83", "U+1A93", "U+1B53", "U+1BB3",
       "U+1C43", "U+1C53", "U+A623", "U+A8D3", "U+A903", "U+A9D3", "U+A9F3", "U+AA53", "U+ABF3",
       "U+FF13", "U+104A3", "U+10D33", "U+11069", "U+110F3", "U+11139", "U+111D3", "U+112F3",
       "U+11453", "U+114D3", "U+11653", "U+116C3", "U+11733", "U+118E3", "U+11953", "U+11C53",
       "U+11D53", "U+11DA3", "U+16A63", "U+16AC3", "U+16B53", "U+1D7D1", "U+1D7DB", "U+1D7E5",
       "U+1D7EF", "U+1D7F9", "U+1E143", "U+1E2F3", "U+1E953", "U+1FBF3"},
      {"4", "U+0664", "U+06F4", "U+07C4", "U+096A", "U+09EA", "U+0A6A", "U+0AEA", "U+0B6A",
       "U+0BEA", "U+0C6A", "U+0CEA", "U+0D6A", "U+0DEA", "U+0E54", "U+0ED4", "U+0F24", "U+1044",
       "U+1094", "U+17E4", "U+1814", "U+194A", "U+19D4", "U+1A84", "U+1A94", "U+1B54", "U+1BB4",
       "U+1C44", "U+1C54", "U+A624", "U+A8D4", "U+A904", "U+A9D4", "U+A9F4", "U+AA54", "U+ABF4",
       "U+FF14", "U+104A4", "U+10D34", "U+1106A", "U+110F4", "U+1113A", "U+111D4", "U+112F4",
       "U+11454", "U+114D4", "U+11654", "U+116C4", "U+11734", "U+118E4", "U+11954", "U+11C54",
       "U+11D54", "U+11DA4", "U+16A64", "U+16AC4", "U+16B54", "U+1D7D2", "U+1D7DC", "U+1D7E6",
       "U+1D7F0", "U+1D7FA", "U+1E144", "U+1E2F4", "U+1E954", "U+1FBF4"},
      {"5", "U+0665", "U+06F5", "U+07C5", "U+096B", "U+09EB", "U+0A6B", "U+0AEB", "U+0B6B",
       "U+0BEB", "U+0C6B", "U+0CEB", "U+0D6B", "U+0DEB", "U+0E55", "U+0ED5", "U+0F25", "U+1045",
       "U+1095", "U+17E5", "U+1815", "U+194B", "U+19D5", "U+1A85", "U+1A95", "U+1B55", "U+1BB5",
       "U+1C45", "U+1C55", "U+A625", "U+A8D5", "U+A905", "U+A9D5", "U+A9F5", "U+AA55", "U+ABF5",
       "U+FF15", "U+104A5", "U+10D35", "U+1106B", "U+110F5", "U+1113B", "U+111D5", "U+112F5",
       "U+11455", "U+114D5", "U+11655", "U+116C5", "U+11735", "U+118E5", "U+11955", "U+11C55",
       "U+11D55", "U+11DA5", "U+16A65", "U+16AC5", "U+16B55", "U+1D7D3", "U+1D7DD", "U+1D7E7",
       "U+1D7F1", "U+1D7FB", "U+1E145", "U+1E2F5", "U+1E955", "U+1FBF5"},
      {"6", "U+0666", "U+06F6", "U+07C6", "U+096C", "U+09EC", "U+0A6C", "U+0AEC", "U+0B6C",
       "U+0BEC", "U+0C6C", "U+0CEC", "U+0D6C", "U+0DEC", "U+0E56", "U+0ED6", "U+0F26", "U+1046",
       "U+1096", "U+17E6", "U+1816", "U+194C", "U+19D6", "U+1A86", "U+1A96", "U+1B56", "U+1BB6",
       "U+1C46", "U+1C56", "U+A626", "U+A8D6", "U+A906", "U+A9D6", "U+A9F6", "U+AA56", "U+ABF6",
       "U+FF16", "U+104A6", "U+10D36", "U+1106C", "U+110F6", "U+1113C", "U+111D6", "U+112F6",
       "U+11456", "U+114D6", "U+11656", "U+116C6", "U+11736", "U+118E6", "U+11956", "U+11C56",
       "U+11D56", "U+11DA6", "U+16A66", "U+16AC6", "U+16B56", "U+1D7D4", "U+1D7DE", "U+1D7E8",
       "U+1D7F2", "U+1D7FC", "U+1E146", "U+1E2F6", "U+1E956", "U+1FBF6"},
      {"7", "U+0667", "U+06F7", "U+07C7", "U+096D", "U+09ED", "U+0A6D", "U+0AED", "U+0B6D",
       "U+0BED", "U+0C6D", "U+0CED", "U+0D6D", "U+0DED", "U+0E57", "U+0ED7", "U+0F27", "U+1047",
       "U+1097", "U+17E7", "U+1817", "U+194D", "U+19D7", "U+1A87", "U+1A97", "U+1B57", "U+1BB7",
       "U+1C47", "U+1C57", "U+A627", "U+A8D7", "U+A907", "U+A9D7", "U+A9F7", "U+AA57", "U+ABF7",
       "U+FF17", "U+104A7", "U+10D37", "U+1106D", "U+110F7", "U+1113D", "U+111D7", "U+112F7",
       "U+11457", "U+114D7", "U+11657", "U+116C7", "U+11737", "U+118E7", "U+11957", "U+11C57",
       "U+11D57", "U+11DA7", "U+16A67", "U+16AC7", "U+16B57", "U+1D7D5", "U+1D7DF", "U+1D7E9",
       "U+1D7F3", "U+1D7FD", "U+1E147", "U+1E2F7", "U+1E957", "U+1FBF7"},
      {"8", "U+0668", "U+06F8", "U+07C8", "U+096E", "U+09EE", "U+0A6E", "U+0AEE", "U+0B6E",
       "U+0BEE", "U+0C6E", "U+0CEE", "U+0D6E", "U+0DEE", "U+0E58", "U+0ED8", "U+0F28", "U+1048",
       "U+1098", "U+17E8", "U+1818", "U+194E", "U+19D8", "U+1A88", "U+1A98", "U+1B58", "U+1BB8",
       "U+1C48", "U+1C58", "U+A628", "U+A8D8", "U+A908", "U+A9D8", "U+A9F8", "U+AA58", "U+ABF8",
       "U+FF18", "U+104A8", "U+10D38", "U+1106E", "U+110F8", "U+1113E", "U+111D8", "U+112F8",
       "U+11458", "U+114D8", "U+11658", "U+116C8", "U+11738", "U+118E8", "U+11958", "U+11C58",
       "U+11D58", "U+11DA8", "U+16A68", "U+16AC8", "U+16B58", "U+1D7D6", "U+1D7E0", "U+1D7EA",
       "U+1D7F4", "U+1D7FE", "U+1E148", "U+1E2F8", "U+1E958", "U+1FBF8"},
      {"9", "U+0669", "U+06F9", "U+07C9", "U+096F", "U+09EF", "U+0A6F", "U+0AEF", "U+0B6F",
       "U+0BEF", "U+0C6F", "U+0CEF", "U+0D6F", "U+0DEF", "U+0E59", "U+0ED9", "U+0F29", "U+1049",
       "U+1099", "U+17E9", "U+1819", "U+194F", "U+19D9", "U+1A89", "U+1A99", "U+1B59", "U+1BB9",
       "U+1C49", "U+1C59", "U+A629", "U+A8D9", "U+A909", "U+A9D9", "U+A9F9", "U+AA59", "U+ABF9",
       "U+FF19", "U+104A9", "U+10D39", "U+1106F", "U+110F9", "U+1113F", "U+111D9", "U+112F9",
       "U+11459", "U+114D9", "U+11659", "U+116C9", "U+11739", "U+118E9", "U+11959", "U+11C59",
       "U+11D59", "U+11DA9", "U+16A69", "U+16AC9", "U+16B59", "U+1D7D7", "U+1D7E1", "U+1D7EB",
       "U+1D7F5", "U+1D7FF", "U+1E149", "U+1E2F9", "U+1E959", "U+1FBF9"}>>

DecimalDigitChars == UNION {DecimalChars[d] : d \in 1..10}

\* the lowercase mapping outside ASCII: the character UnicodeUpperChars[i] has
\* the lowercase UnicodeLowerChars[i]
UnicodeUpperChars ==
    <<"U+00C0", "U+00C1", "U+00C2", "U+00C3", "U+00C4", "U+00C5", "U+00C6", "U+00C7", "U+00C8",
      "U+00C9", "U+00CA", "U+00CB", "U+00CC", "U+00CD", "U+00CE", "U+00CF", "U+00D0", "U+00D1",
      "U+00D2", "U+00D3", "U+00D4", "U+00D5", "U+00D6", "U+00D8", "U+00D9", "U+00DA", "U+00DB",
      "U+00DC", "U+00DD", "U+00DE", "U+0100", "U+0102", "U+0104", "U+0106", "U+0108", "U+010A",
      "U+010C", "U+010E", "U+0110", "U+0112", "U+0114", "U+0116", "U+0118", "U+011A", "U+011C",
      "U+011E", "U+0120", "U+0122", "U+0124", "U+0126", "U+0128", "U+012A", "U+012C", "U+012E",
      "U+0130", "U+0132", "U+0134", "U+0136", "U+0139", "U+013B", "U+013D", "U+013F", "U+0141",
      "U+0143", "U+0145", "U+0147", "U+014A", "U+014C", "U+014E", "U+0150", "U+0152", "U+0154",
      "U+0156", "U+0158", "U+015A", "U+015C", "U+015E", "U+0160", "U+0162", "U+0164", "U+0166",
      "U+0168", "U+016A", "U+016C", "U+016E", "U+0170", "U+0172", "U+0174", "U+0176", "U+0178",
      "U+0179", "U+017B", "U+017D", "U+0181", "U+0182", "U+0184", "U+0186", "U+0187", "U+0189",
      "U+018A", "U+018B", "U+018E", "U+018F", "U+0190", "U+0191", "U+0193", "U+0194", "U+0196",
      "U+0197", "U+0198", "U+019C", "U+019D", "U+019F", "U+01A0", "U+01A2", "U+01A4", "U+01A6",
      "U+01A7", "U+01A9", "U+01AC", "U+01AE", "U+01AF", "U+01B1", "U+01B2", "U+01B3", "U+01B5",
      "U+01B7", "U+01B8", "U+01BC", "U+01C4", "U+01C5", "U+01C7", "U+01C8", "U+01CA", "U+01CB",
      "U+01CD", "U+01CF", "U+01D1", "U+01D3", "U+01D5", "U+01D7", "U+01D9", "U+01DB", "U+01DE",
      "U+01E0", "U+01E2", "U+01E4", "U+01E6", "U+01E8", "U+01EA", "U+01EC", "U+01EE", "U+01F1",
      "U+01F2", "U+01F4", "U+01F6", "U+01F7", "U+01F8", "U+01FA", "U+01FC", "U+01FE", "U+0200",
      "U+0202", "U+0204", "U+0206", "U+0208", "U+020A", "U+020C", "U+020E", "U+0210", "U+0212",
      "U+0214", "U+0216", "U+0218", "U+021A", "U+021C", "U+021E", "U+0220", "U+0222", "U+0224",
      "U+0226", "U+0228", "U+022A", "U+022C", "U+022E", "U+0230", "U+0232", "U+023A", "U+023B",
      "U+023D", "U+023E", "U+0241", "U+0243", "U+0244", "U+0245", "U+0246", "U+0248", "U+024A",
      "U+024C", "U+024E", "U+0370", "U+0372", "U+0376", "U+037F", "U+0386", "U+0388", "U+0389",
      "U+038A", "U+038C", "U+038E", "U+038F", "U+0391", "U+0392", "U+0393", "U+0394", "U+0395",
      "U+0396", "U+0397", "U+0398", "U+0399", "U+039A", "U+039B", "U+039C", "U+039D", "U+039E",
      "U+039F", "U+03A0", "U+03A1", "U+03A3", "U+03A4", "U+03A5", "U+03A6", "U+03A7", "U+03A8",
      "U+03A9", "U+03AA", "U+03AB", "U+03CF", "U+03D8", "U+03DA", "U+03DC", "U+03DE", "U+03E0",
      "U+03E2", "U+03E4", "U+03E6", "U+03E8", "U+03EA", "U+03EC", "U+03EE", "U+03F4", "U+03F7",
      "U+03F9", "U+03FA", "U+03FD", "U+03FE", "U+03FF", "U+0400", "U+0401", "U+0402", "U+0403",
      "U+0404", "U+0405", "U+0406", "U+0407", "U+0408", "U+0409", "U+040A", "U+040B", "U+040C",
      "U+040D", "U+040E", "U+040F", "U+0410", "U+0411", "U+0412", "U+0413", "U+0414", "U+0415",
      "U+0416", "U+0417", "U+0418", "U+0419", "U+041A", "U+041B", "U+041C", "U+041D", "U+041E",
      "U+041F", "U+0420", "U+0421", "U+0422", "U+0423", "U+0424", "U+0425", "U+0426", "U+0427",
      "U+0428", "U+0429", "U+042A", "U+042B", "U+042C", "U+042D", "U+042E", "U+042F", "U+0460",
      "U+0462", "U+0464", "U+0466", "U+0468", "U+046A", "U+046C", "U+046E", "U+0470", "U+0472",
      "U+0474", "U+0476", "U+0478", "U+047A", "U+047C", "U+047E", "U+0480", "U+048A", "U+048C",
      "U+048E", "U+0490", "U+0492", "U+0494", "U+0496", "U+0498", "U+049A", "U+049C", "U+049E",
      "U+04A0", "U+04A2", "U+04A4", "U+04A6", "U+04A8", "U+04AA", "U+04AC", "U+04AE", "U+04B0",
      "U+04B2", "U+04B4", "U+04B6", "U+04B8", "U+04BA", "U+04BC", "U+04BE", "U+04C0", "U+04C1",
      "U+04C3", "U+04C5", "U+04C7", "U+04C9", "U+04CB", "U+04CD", "U+04D0", "U+04D2", "U+04D4",
      "U+04D6", "U+04D8", "U+04DA", "U+04DC", "U+04DE", "U+04E0", "U+04E2", "U+04E4", "U+04E6",
      "U+04E8", "U+04EA", "U+04EC", "U+04EE", "U+04F0", "U+04F2", "U+04F4", "U+04F6", "U+04F8",
      "U+04FA", "U+04FC", "U+04FE", "U+0500", "U+0502", "U+0504", "U+0506", "U+0508", "U+050A",
      "U+050C", "U+050E", "U+0510", "U+0512", "U+0514", "U+0516", "U+0518", "U+051A", "U+051C",
      "U+051E", "U+0520", "U+0522", "U+0524", "U+0526", "U+0528", "U+052A", "U+052C", "U+052E",
      "U+0531", "U+0532", "U+0533", "U+0534", "U+0535", "U+0536", "U+0537", "U+0538", "U+0539",
      "U+053A", "U+053B", "U+053C", "U+053D", "U+053E", "U+053F", "U+0540", "U+0541", "U+0542",
      "U+0543", "U+0544", "U+0545", "U+0546", "U+0547", "U+0548", "U+0549", "U+054A", "U+054B",
      "U+054C", "U+054D", "U+054E", "U+054F", "U+0550", "U+0551", "U+0552", "U+0553", "U+0554",
      "U+0555", "U+0556", "U+10A0", "U+10A1", "U+10A2", "U+10A3", "U+10A4", "U+10A5", "U+10A6",
      "U+10A7", "U+10A8", "U+10A9", "U+10AA", "U+10AB", "U+10AC", "U+10AD", "U+10AE", "U+10AF",
      "U+10B0", "U+10B1", "U+10B2", "U+10B3", "U+10B4", "U+10B5", "U+10B6", "U+10B7", "U+10B8",
      "U+10B9", "U+10BA", "U+10BB", "U+10BC", "U+10BD", "U+10BE", "U+10BF", "U+10C0", "U+10C1",
      "U+10C2", "U+10C3", "U+10C4", "U+10C5", "U+10C7", "U+10CD", "U+13A0", "U+13A1", "U+13A2",
      "U+13A3", "U+13A4", "U+13A5", "U+13A6", "U+13A7", "U+13A8", "U+13A9", "U+13AA", "U+13AB",
      "U+13AC", "U+13AD", "U+13AE", "U+13AF", "U+13B0", "U+13B1", "U+13B2", "U+13B3", "U+13B4",
      "U+13B5", "U+13B6", "U+13B7", "U+13B8", "U+13B9", "U+13BA", "U+13BB", "U+13BC", "U+13BD",
      "U+13BE", "U+13BF", "U+13C0", "U+13C1", "U+13C2", "U+13C3", "U+13C4", "U+13C5", "U+13C6",
      "U+13C7", "U+13C8", "U+13C9", "U+13CA", "U+13CB", "U+13CC", "U+13CD", "U+13CE", "U+13CF",
      "U+13D0", "U+13D1", "U+13D2", "U+13D3", "U+13D4", "U+13D5", "U+13D6", "U+13D7", "U+13D8",
      "U+13D9", "U+13DA", "U+13DB", "U+13DC", "U+13DD", "U+13DE", "U+13DF", "U+13E0", "U+13E1",
      "U+13E2", "U+13E3", "U+13E4", "U+13E5", "U+13E6", "U+13E7", "U+13E8", "U+13E9", "U+13EA",
      "U+13EB", "U+13EC", "U+13ED", "U+13EE", "U+13EF", "U+13F0", "U+13F1", "U+13F2", "U+13F3",
      "U+13F4", "U+13F5", "U+1C90", "U+1C91", "U+1C92", "U+1C93", "U+1C94", "U+1C95", "U+1C96",
      "U+1C97", "U+1C98", "U+1C99", "U+1C9A", "U+1C9B", "U+1C9C", "U+1C9D", "U+1C9E", "U+1C9F",
      "U+1CA0", "U+1CA1", "U+1CA2", "U+1CA3", "U+1CA4", "U+1CA5", "U+1CA6", "U+1CA7", "U+1CA8",
      "U+1CA9", "U+1CAA", "U+1CAB", "U+1CAC", "U+1CAD", "U+1CAE", "U+1CAF", "U+1CB0", "U+1CB1",
      "U+1CB2", "U+1CB3", "U+1CB4", "U+1CB5", "U+1CB6", "U+1CB7", "U+1CB8", "U+1CB9", "U+1CBA",
      "U+1CBD", "U+1CBE", "U+1CBF", "U+1E00", "U+1E02", "U+1E04", "U+1E06", "U+1E08", "U+1E0A",
      "U+1E0C", "U+1E0E", "U+1E10", "U+1E12", "U+1E14", "U+1E16", "U+1E18", "U+1E1A", "U+1E1C",
      "U+1E1E", "U+1E20", "U+1E22", "U+1E24", "U+1E26", "U+1E28", "U+1E2A", "U+1E2C", "U+1E2E",
      "U+1E30", "U+1E32", "U+1E34", "U+1E36", "U+1E38", "U+1E3A", "U+1E3C", "U+1E3E", "U+1E40",
      "U+1E42", "U+1E44", "U+1E46", "U+1E48", "U+1E4A", "U+1E4C", "U+1E4E", "U+1E50", "U+1E52",
      "U+1E54", "U+1E56", "U+1E58", "U+1E5A", "U+1E5C", "U+1E5E", "U+1E60", "U+1E62", "U+1E64",
      "U+1E66", "U+1E68", "U+1E6A", "U+1E6C", "U+1E6E", "U+1E70", "U+1E72", "U+1E74", "U+1E76",
      "U+1E78", "U+1E7A", "U+1E7C", "U+1E7E", "U+1E80", "U+1E82", "U+1E84", "U+1E86", "U+1E88",
      "U+1E8A", "U+1E8C", "U+1E8E", "U+1E90", "U+1E92", "U+1E94", "U+1E9E", "U+1EA0", "U+1EA2",
      "U+1EA4", "U+1EA6", "U+1EA8", "U+1EAA", "U+1EAC", "U+1EAE", "U+1EB0", "U+1EB2", "U+1EB4",
      "U+1EB6", "U+1EB8", "U+1EBA", "U+1EBC", "U+1EBE", "U+1EC0", "U+1EC2", "U+1EC4", "U+1EC6",
      "U+1EC8", "U+1ECA", "U+1ECC", "U+1ECE", "U+1ED0", "U+1ED2", "U+1ED4", "U+1ED6", "U+1ED8",
      "U+1EDA", "U+1EDC", "U+1EDE", "U+1EE0", "U+1EE2", "U+1EE4", "U+1EE6", "U+1EE8", "U+1EEA",
      "U+1EEC", "U+1EEE", "U+1EF0", "U+1EF2", "U+1EF4", "U+1EF6", "U+1EF8", "U+1EFA", "U+1EFC",
      "U+1EFE", "U+1F08", "U+1F09", "U+1F0A", "U+1F0B", "U+1F0C", "U+1F0D", "U+1F0E", "U+1F0F",
      "U+1F18", "U+1F19", "U+1F1A", "U+1F1B", "U+1F1C", "U+1F1D", "U+1F28", "U+1F29", "U+1F2A",
      "U+1F2B", "U+1F2C", "U+1F2D", "U+1F2E", "U+1F2F", "U+1F38", "U+1F39", "U+1F3A", "U+1F3B",
      "U+1F3C", "U+1F3D", "U+1F3E", "U+1F3F", "U+1F48", "U+1F49", "U+1F4A", "U+1F4B", "U+1F4C",
      "U+1F4D", "U+1F59", "U+1F5B", "U+1F5D", "U+1F5F", "U+1F68", "U+1F69", "U+1F6A", "U+1F6B",
      "U+1F6C", "U+1F6D", "U+1F6E", "U+1F6F", "U+1F88", "U+1F89", "U+1F8A", "U+1F8B", "U+1F8C",
      "U+1F8D", "U+1F8E", "U+1F8F", "U+1F98", "U+1F99", "U+1F9A", "U+1F9B", "U+1F9C", "U+1F9D",
      "U+1F9E", "U+1F9F", "U+1FA8", "U+1FA9", "U+1FAA", "U+1FAB", "U+1FAC", "U+1FAD", "U+1FAE",
      "U+1FAF", "U+1FB8", "U+1FB9", "U+1FBA", "U+1FBB", "U+1FBC", "U+1FC8", "U+1FC9", "U+1FCA",
      "U+1FCB", "U+1FCC", "U+1FD8", "U+1FD9", "U+1FDA", "U+1FDB", "U+1FE8", "U+1FE9", "U+1FEA",
      "U+1FEB", "U+1FEC", "U+1FF8", "U+1FF9", "U+1FFA", "U+1FFB", "U+1FFC", "U+2126", "U+212A",
      "U+212B", "U+2132", "U+2160", "U+2161", "U+2162", "U+2163", "U+2164", "U+2165", "U+2166",
      "U+2167", "U+2168", "U+2169", "U+216A", "U+216B", "U+216C", "U+216D", "U+216E", "U+216F",
      "U+2183", "U+24B6", "U+24B7", "U+24B8", "U+24B9", "U+24BA", "U+24BB", "U+24BC", "U+24BD",
      "U+24BE", "U+24BF", "U+24C0", "U+24C1", "U+24C2", "U+24C3", "U+24C4", "U+24C5", "U+24C6",
      "U+24C7", "U+24C8", "U+24C9", "U+24CA", "U+24CB", "U+24CC", "U+24CD", "U+24CE", "U+24CF",
      "U+2C00", "U+2C01", "U+2C02", "U+2C03", "U+2C04", "U+2C05", "U+2C06", "U+2C07", "U+2C08",
      "U+2C09", "U+2C0A", "U+2C0B", "U+2C0C", "U+2C0D", "U+2C0E", "U+2C0F", "U+2C10", "U+2C11",
      "U+2C12", "U+2C13", "U+2C14", "U+2C15", "U+2C16", "U+2C17", "U+2C18", "U+2C19", "U+2C1A",
      "U+2C1B", "U+2C1C", "U+2C1D", "U+2C1E", "U+2C1F", "U+2C20", "U+2C21", "U+2C22", "U+2C23",
      "U+2C24", "U+2C25", "U+2C26", "U+2C27", "U+2C28", "U+2C29", "U+2C2A", "U+2C2B", "U+2C2C",
      "U+2C2D", "U+2C2E", "U+2C2F", "U+2C60", "U+2C62", "U+2C63", "U+2C64", "U+2C67", "U+2C69",
      "U+2C6B", "U+2C6D", "U+2C6E", "U+2C6F", "U+2C70", "U+2C72", "U+2C75", "U+2C7E", "U+2C7F",
      "U+2C80", "U+2C82", "U+2C84", "U+2C86", "U+2C88", "U+2C8A", "U+2C8C", "U+2C8E", "U+2C90",
      "U+2C92", "U+2C94", "U+2C96", "U+2C98", "U+2C9A", "U+2C9C", "U+2C9E", "U+2CA0", "U+2CA2",
      "U+2CA4", "U+2CA6", "U+2CA8", "U+2CAA", "U+2CAC", "U+2CAE", "U+2CB0", "U+2CB2", "U+2CB4",
      "U+2CB6", "U+2CB8", "U+2CBA", "U+2CBC", "U+2CBE", "U+2CC0", "U+2CC2", "U+2CC4", "U+2CC6",
      "U+2CC8", "U+2CCA", "U+2CCC", "U+2CCE", "U+2CD0", "U+2CD2", "U+2CD4", "U+2CD6", "U+2CD8",
      "U+2CDA", "U+2CDC", "U+2CDE", "U+2CE0", "U+2CE2", "U+2CEB", "U+2CED", "U+2CF2", "U+A640",
      "U+A642", "U+A644", "U+A646", "U+A648", "U+A64A", "U+A64C", "U+A64E", "U+A650", "U+A652",
      "U+A654", "U+A656", "U+A658", "U+A65A", "U+A65C", "U+A65E", "U+A660", "U+A662", "U+A664",
      "U+A666", "U+A668", "U+A66A", "U+A66C", "U+A680", "U+A682", "U+A684", "U+A686", "U+A688",
      "U+A68A", "U+A68C", "U+A68E", "U+A690", "U+A692", "U+A694", "U+A696", "U+A698", "U+A69A",
      "U+A722", "U+A724", "U+A726", "U+A728", "U+A72A", "U+A72C", "U+A72E", "U+A732", "U+A734",
      "U+A736", "U+A738", "U+A73A", "U+A73C", "U+A73E", "U+A740", "U+A742", "U+A744", "U+A746",
      "U+A748", "U+A74A", "U+A74C", "U+A74E", "U+A750", "U+A752", "U+A754", "U+A756", "U+A758",
      "U+A75A", "U+A75C", "U+A75E", "U+A760", "U+A762", "U+A764", "U+A766", "U+A768", "U+A76A",
      "U+A76C", "U+A76E", "U+A779", "U+A77B", "U+A77D", "U+A77E", "U+A780", "U+A782", "U+A784",
      "U+A786", "U+A78B", "U+A78D", "U+A790", "U+A792", "U+A796", "U+A798", "U+A79A", "U+A79C",
      "U+A79E", "U+A7A0", "U+A7A2", "U+A7A4", "U+A7A6", "U+A7A8", "U+A7AA", "U+A7AB", "U+A7AC",
      "U+A7AD", "U+A7AE", "U+A7B0", "U+A7B1", "U+A7B2", "U+A7B3", "U+A7B4", "U+A7B6", "U+A7B8",
      "U+A7BA", "U+A7BC", "U+A7BE", "U+A7C0", "U+A7C2", "U+A7C4", "U+A7C5", "U+A7C6", "U+A7C7",
      "U+A7C9", "U+A7D0", "U+A7D6", "U+A7D8", "U+A7F5", "U+FF21", "U+FF22", "U+FF23", "U+FF24",
      "U+FF25", "U+FF26", "U+FF27", "U+FF28", "U+FF29", "U+FF2A", "U+FF2B", "U+FF2C", "U+FF2D",
      "U+FF2E", "U+FF2F", "U+FF30", "U+FF31", "U+FF32", "U+FF33", "U+FF34", "U+FF35", "U+FF36",
      "U+FF37", "U+FF38", "U+FF39", "U+FF3A", "U+10400", "U+10401", "U+10402", "U+10403",
      "U+10404", "U+10405", "U+10406", "U+10407", "U+10408", "U+10409", "U+1040A", "U+1040B",
      "U+1040C", "U+1040D", "U+1040E", "U+1040F", "U+10410", "U+10411", "U+10412", "U+10413",
      "U+10414", "U+10415", "U+10416", "U+10417", "U+10418", "U+10419", "U+1041A", "U+1041B",
      "U+1041C", "U+1041D", "U+1041E", "U+1041F", "U+10420", "U+10421", "U+10422", "U+10423",
      "U+10424", "U+10425", "U+10426", "U+10427", "U+104B0", "U+104B1", "U+104B2", "U+104B3",
      "U+104B4", "U+104B5", "U+104B6", "U+104B7", "U+104B8", "U+104B9", "U+104BA", "U+104BB",
      "U+104BC", "U+104BD", "U+104BE", "U+104BF", "U+104C0", "U+104C1", "U+104C2", "U+104C3",
      "U+104C4", "U+104C5", "U+104C6", "U+104C7", "U+104C8", "U+104C9", "U+104CA", "U+104CB",
      "U+104CC", "U+104CD", "U+104CE", "U+104CF", "U+104D0", "U+104D1", "U+104D2", "U+104D3",
      "U+10570", "U+10571", "U+10572", "U+10573", "U+10574", "U+10575", "U+10576", "U+10577",
      "U+10578", "U+10579", "U+1057A", "U+1057C", "U+1057D", "U+1057E", "U+1057F", "U+10580",
      "U+10581", "U+10582", "U+10583", "U+10584", "U+10585", "U+10586", "U+10587", "U+10588",
      "U+10589", "U+1058A", "U+1058C", "U+1058D", "U+1058E", "U+1058F", "U+10590", "U+10591",
      "U+10592", "U+10594", "U+10595", "U+10C80", "U+10C81", "U+10C82", "U+10C83", "U+10C84",
      "U+10C85", "U+10C86", "U+10C87", "U+10C88", "U+10C89", "U+10C8A", "U+10C8B", "U+10C8C",
      "U+10C8D", "U+10C8E", "U+10C8F", "U+10C90", "U+10C91", "U+10C92", "U+10C93", "U+10C94",
      "U+10C95", "U+10C96", "U+10C97", "U+10C98", "U+10C99", "U+10C9A", "U+10C9B", "U+10C9C",
      "U+10C9D", "U+10C9E", "U+10C9F", "U+10CA0", "U+10CA1", "U+10CA2", "U+10CA3", "U+10CA4",
      "U+10CA5", "U+10CA6", "U+10CA7", "U+10CA8", "U+10CA9", "U+10CAA", "U+10CAB", "U+10CAC",
      "U+10CAD", "U+10CAE", "U+10CAF", "U+10CB0", "U+10CB1", "U+10CB2", "U+118A0", "U+118A1",
      "U+118A2", "U+118A3", "U+118A4", "U+118A5", "U+118A6", "U+118A7", "U+118A8", "U+118A9",
      "U+118AA", "U+118AB", "U+118AC", "U+118AD", "U+118AE", "U+118AF", "U+118B0", "U+118B1",
      "U+118B2", "U+118B3", "U+118B4", "U+118B5", "U+118B6", "U+118B7", "U+118B8", "U+118B9",
      "U+118BA", "U+118BB", "U+118BC", "U+118BD", "U+118BE", "U+118BF", "U+16E40", "U+16E41",
      "U+16E42", "U+16E43", "U+16E44", "U+16E45", "U+16E46", "U+16E47", "U+16E48", "U+16E49",
      "U+16E4A", "U+16E4B", "U+16E4C", "U+16E4D", "U+16E4E", "U+16E4F", "U+16E50", "U+16E51",
      "U+16E52", "U+16E53", "U+16E54", "U+16E55", "U+16E56", "U+16E57", "U+16E58", "U+16E59",
      "U+16E5A", "U+16E5B", "U+16E5C", "U+16E5D", "U+16E5E", "U+16E5F", "U+1E900", "U+1E901",
      "U+1E902", "U+1E903", "U+1E904", "U+1E905", "U+1E906", "U+1E907", "U+1E908", "U+1E909",
      "U+1E90A", "U+1E90B", "U+1E90C", "U+1E90D", "U+1E90E", "U+1E90F", "U+1E910", "U+1E911",
      "U+1E912", "U+1E913", "U+1E914", "U+1E915", "U+1E916", "U+1E917", "U+1E918", "U+1E919",
      "U+1E91A", "U+1E91B", "U+1E91C", "U+1E91D", "U+1E91E", "U+1E91F", "U+1E920", "U+1E921">>

UnicodeLowerChars ==
    <<"U+00E0", "U+00E1", "U+00E2", "U+00E3", "U+00E4", "U+00E5", "U+00E6", "U+00E7", "U+00E8",
      "U+00E9", "U+00EA", "U+00EB", "U+00EC", "U+00ED", "U+00EE", "U+00EF", "U+00F0", "U+00F1",
      "U+00F2", "U+00F3", "U+00F4", "U+00F5", "U+00F6", "U+00F8", "U+00F9", "U+00FA", "U+00FB",
      "U+00FC", "U+00FD", "U+00FE", "U+0101", "U+0103", "U+0105", "U+0107", "U+0109", "U+010B",
      "U+010D", "U+010F", "U+0111", "U+0113", "U+0115", "U+0117", "U+0119", "U+011B", "U+011D",
      "U+011F", "U+0121", "U+0123", "U+0125", "U+0127", "U+0129", "U+012B", "U+012D", "U+012F",
      "i", "U+0133", "U+0135", "U+0137", "U+013A", "U+013C", "U+013E", "U+0140", "U+0142",
      "U+0144", "U+0146", "U+0148", "U+014B", "U+014D", "U+014F", "U+0151", "U+0153", "U+0155",
      "U+0157", "U+0159", "U+015B", "U+015D", "U+015F", "U+0161", "U+0163", "U+0165", "U+0167",
      "U+0169", "U+016B", "U+016D", "U+016F", "U+0171", "U+0173", "U+0175", "U+0177", "U+00FF",
      "U+017A", "U+017C", "U+017E", "U+0253", "U+0183", "U+0185", "U+0254", "U+0188", "U+0256",
      "U+0257", "U+018C", "U+01DD", "U+0259", "U+025B", "U+0192", "U+0260", "U+0263", "U+0269",
      "U+0268", "U+0199", "U+026F", "U+0272", "U+0275", "U+01A1", "U+01A3", "U+01A5", "U+0280",
      "U+01A8", "U+0283", "U+01AD", "U+0288", "U+01B0", "U+028A", "U+028B", "U+01B4", "U+01B6",
      "U+0292", "U+01B9", "U+01BD", "U+01C6", "U+01C6", "U+01C9", "U+01C9", "U+01CC", "U+01CC",
      "U+01CE", "U+01D0", "U+01D2", "U+01D4", "U+01D6", "U+01D8", "U+01DA", "U+01DC", "U+01DF",
      "U+01E1", "U+01E3", "U+01E5", "U+01E7", "U+01E9", "U+01EB", "U+01ED", "U+01EF", "U+01F3",
      "U+01F3", "U+01F5", "U+0195", "U+01BF", "U+01F9", "U+01FB", "U+01FD", "U+01FF", "U+0201",
      "U+0203", "U+0205", "U+0207", "U+0209", "U+020B", "U+020D", "U+020F", "U+0211", "U+0213",
      "U+0215", "U+0217", "U+0219", "U+021B", "U+021D", "U+021F", "U+019E", "U+0223", "U+0225",
      "U+0227", "U+0229", "U+022B", "U+022D", "U+022F", "U+0231", "U+0233", "U+2C65", "U+023C",
      "U+019A", "U+2C66", "U+0242", "U+0180", "U+0289", "U+028C", "U+0247", "U+0249", "U+024B",
      "U+024D", "U+024F", "U+0371", "U+0373", "U+0377", "U+03F3", "U+03AC", "U+03AD", "U+03AE",
      "U+03AF", "U+03CC", "U+03CD", "U+03CE", "U+03B1", "U+03B2", "U+03B3", "U+03B4", "U+03B5",
      "U+03B6", "U+03B7", "U+03B8", "U+03B9", "U+03BA", "U+03BB", "U+03BC", "U+03BD", "U+03BE",
      "U+03BF", "U+03C0", "U+03C1", "U+03C3", "U+03C4", "U+03C5", "U+03C6", "U+03C7", "U+03C8",
      "U+03C9", "U+03CA", "U+03CB", "U+03D7", "U+03D9", "U+03DB", "U+03DD", "U+03DF", "U+03E1",
      "U+03E3", "U+03E5", "U+03E7", "U+03E9", "U+03EB", "U+03ED", "U+03EF", "U+03B8", "U+03F8",
      "U+03F2", "U+03FB", "U+037B", "U+037C", "U+037D", "U+0450", "U+0451", "U+0452", "U+0453",
      "U+0454", "U+0455", "U+0456", "U+0457", "U+0458", "U+0459", "U+045A", "U+045B", "U+045C",
      "U+045D", "U+045E", "U+045F", "U+0430", "U+0431", "U+0432", "U+0433", "U+0434", "U+0435",
      "U+0436", "U+0437", "U+0438", "U+0439", "U+043A", "U+043B", "U+043C", "U+043D", "U+043E",
      "U+043F", "U+0440", "U+0441", "U+0442", "U+0443", "U+0444", "U+0445", "U+0446", "U+0447",
      "U+0448", "U+0449", "U+044A", "U+044B", "U+044C", "U+044D", "U+044E", "U+044F", "U+0461",
      "U+0463", "U+0465", "U+0467", "U+0469", "U+046B", "U+046D", "U+046F", "U+0471", "U+0473",
      "U+0475", "U+0477", "U+0479", "U+047B", "U+047D", "U+047F", "U+0481", "U+048B", "U+048D",
      "U+048F", "U+0491", "U+0493", "U+0495", "U+0497", "U+0499", "U+049B", "U+049D", "U+049F",
      "U+04A1", "U+04A3", "U+04A5", "U+04A7", "U+04A9", "U+04AB", "U+04AD", "U+04AF", "U+04B1",
      "U+04B3", "U+04B5", "U+04B7", "U+04B9", "U+04BB", "U+04BD", "U+04BF", "U+04CF", "U+04C2",
      "U+04C4", "U+04C6", "U+04C8", "U+04CA", "U+04CC", "U+04CE", "U+04D1", "U+04D3", "U+04D5",
      "U+04D7", "U+04D9", "U+04DB", "U+04DD", "U+04DF", "U+04E1", "U+04E3", "U+04E5", "U+04E7",
      "U+04E9", "U+04EB", "U+04ED", "U+04EF", "U+04F1", "U+04F3", "U+04F5", "U+04F7", "U+04F9",
      "U+04FB", "U+04FD", "U+04FF", "U+0501", "U+0503", "U+0505", "U+0507", "U+0509", "U+050B",
      "U+050D", "U+050F", "U+0511", "U+0513", "U+0515", "U+0517", "U+0519", "U+051B", "U+051D",
      "U+051F", "U+0521", "U+0523", "U+0525", "U+0527", "U+0529", "U+052B", "U+052D", "U+052F",
      "U+0561", "U+0562", "U+0563", "U+0564", "U+0565", "U+0566", "U+0567", "U+0568", "U+0569",
      "U+056A", "U+056B", "U+056C", "U+056D", "U+056E", "U+056F", "U+0570", "U+0571", "U+0572",
      "U+0573", "U+0574", "U+0575", "U+0576", "U+0577", "U+0578", "U+0579", "U+057A", "U+057B",
      "U+057C", "U+057D", "U+057E", "U+057F", "U+0580", "U+0581", "U+0582", "U+0583", "U+0584",
      "U+0585", "U+0586", "U+2D00", "U+2D01", "U+2D02", "U+2D03", "U+2D04", "U+2D05", "U+2D06",
      "U+2D07", "U+2D08", "U+2D09", "U+2D0A", "U+2D0B", "U+2D0C", "U+2D0D", "U+2D0E", "U+2D0F",
      "U+2D10", "U+2D11", "U+2D12", "U+2D13", "U+2D14", "U+2D15", "U+2D16", "U+2D17", "U+2D18",
      "U+2D19", "U+2D1A", "U+2D1B", "U+2D1C", "U+2D1D", "U+2D1E", "U+2D1F", "U+2D20", "U+2D21",
      "U+2D22", "U+2D23", "U+2D24", "U+2D25", "U+2D27", "U+2D2D", "U+AB70", "U+AB71", "U+AB72",
      "U+AB73", "U+AB74", "U+AB75", "U+AB76", "U+AB77", "U+AB78", "U+AB79", "U+AB7A", "U+AB7B",
      "U+AB7C", "U+AB7D", "U+AB7E", "U+AB7F", "U+AB80", "U+AB81", "U+AB82", "U+AB83", "U+AB84",
      "U+AB85", "U+AB86", "U+AB87", "U+AB88", "U+AB89", "U+AB8A", "U+AB8B", "U+AB8C", "U+AB8D",
      "U+AB8E", "U+AB8F", "U+AB90", "U+AB91", "U+AB92", "U+AB93", "U+AB94", "U+AB95", "U+AB96",
      "U+AB97", "U+AB98", "U+AB99", "U+AB9A", "U+AB9B", "U+AB9C", "U+AB9D", "U+AB9E", "U+AB9F",
      "U+ABA0", "U+ABA1", "U+ABA2", "U+ABA3", "U+ABA4", "U+ABA5", "U+ABA6", "U+ABA7", "U+ABA8",
      "U+ABA9", "U+ABAA", "U+ABAB", "U+ABAC", "U+ABAD", "U+ABAE", "U+ABAF", "U+ABB0", "U+ABB1",
      "U+ABB2", "U+ABB3", "U+ABB4", "U+ABB5", "U+ABB6", "U+ABB7", "U+ABB8", "U+ABB9", "U+ABBA",
      "U+ABBB", "U+ABBC", "U+ABBD", "U+ABBE", "U+ABBF", "U+13F8", "U+13F9", "U+13FA", "U+13FB",
      "U+13FC", "U+13FD", "U+10D0", "U+10D1", "U+10D2", "U+10D3", "U+10D4", "U+10D5", "U+10D6",
      "U+10D7", "U+10D8", "U+10D9", "U+10DA", "U+10DB", "U+10DC", "U+10DD", "U+10DE", "U+10DF",
      "U+10E0", "U+10E1", "U+10E2", "U+10E3", "U+10E4", "U+10E5", "U+10E6", "U+10E7", "U+10E8",
      "U+10E9", "U+10EA", "U+10EB", "U+10EC", "U+10ED", "U+10EE", "U+10EF", "U+10F0", "U+10F1",
      "U+10F2", "U+10F3", "U+10F4", "U+10F5", "U+10F6", "U+10F7", "U+10F8", "U+10F9", "U+10FA",
      "U+10FD", "U+10FE", "U+10FF", "U+1E01", "U+1E03", "U+1E05", "U+1E07", "U+1E09", "U+1E0B",
      "U+1E0D", "U+1E0F", "U+1E11", "U+1E13", "U+1E15", "U+1E17", "U+1E19", "U+1E1B", "U+1E1D",
      "U+1E1F", "U+1E21", "U+1E23", "U+1E25", "U+1E27", "U+1E29", "U+1E2B", "U+1E2D", "U+1E2F",
      "U+1E31", "U+1E33", "U+1E35", "U+1E37", "U+1E39", "U+1E3B", "U+1E3D", "U+1E3F", "U+1E41",
      "U+1E43", "U+1E45", "U+1E47", "U+1E49", "U+1E4B", "U+1E4D", "U+1E4F", "U+1E51", "U+1E53",
      "U+1E55", "U+1E57", "U+1E59", "U+1E5B", "U+1E5D", "U+1E5F", "U+1E61", "U+1E63", "U+1E65",
      "U+1E67", "U+1E69", "U+1E6B", "U+1E6D", "U+1E6F", "U+1E71", "U+1E73", "U+1E75", "U+1E77",
      "U+1E79", "U+1E7B", "U+1E7D", "U+1E7F", "U+1E81", "U+1E83", "U+1E85", "U+1E87", "U+1E89",
      "U+1E8B", "U+1E8D", "U+1E8F", "U+1E91", "U+1E93", "U+1E95", "U+00DF", "U+1EA1", "U+1EA3",
      "U+1EA5", "U+1EA7", "U+1EA9", "U+1EAB", "U+1EAD", "U+1EAF", "U+1EB1", "U+1EB3", "U+1EB5",
      "U+1EB7", "U+1EB9", "U+1EBB", "U+1EBD", "U+1EBF", "U+1EC1", "U+1EC3", "U+1EC5", "U+1EC7",
      "U+1EC9", "U+1ECB", "U+1ECD", "U+1ECF", "U+1ED1", "U+1ED3", "U+1ED5", "U+1ED7", "U+1ED9",
      "U+1EDB", "U+1EDD", "U+1EDF", "U+1EE1", "U+1EE3", "U+1EE5", "U+1EE7", "U+1EE9", "U+1EEB",
      "U+1EED", "U+1EEF", "U+1EF1", "U+1EF3", "U+1EF5", "U+1EF7", "U+1EF9", "U+1EFB", "U+1EFD",
      "U+1EFF", "U+1F00", "U+1F01", "U+1F02", "U+1F03", "U+1F04", "U+1F05", "U+1F06", "U+1F07",
      "U+1F10", "U+1F11", "U+1F12", "U+1F13", "U+1F14", "U+1F15", "U+1F20", "U+1F21", "U+1F22",
      "U+1F23", "U+1F24", "U+1F25", "U+1F26", "U+1F27", "U+1F30", "U+1F31", "U+1F32", "U+1F33",
      "U+1F34", "U+1F35", "U+1F36", "U+1F37", "U+1F40", "U+1F41", "U+1F42", "U+1F43", "U+1F44",
      "U+1F45", "U+1F51", "U+1F53", "U+1F55", "U+1F57", "U+1F60", "U+1F61", "U+1F62", "U+1F63",
      "U+1F64", "U+1F65", "U+1F66", "U+1F67", "U+1F80", "U+1F81", "U+1F82", "U+1F83", "U+1F84",
      "U+1F85", "U+1F86", "U+1F87", "U+1F90", "U+1F91", "U+1F92", "U+1F93", "U+1F94", "U+1F95",
      "U+1F96", "U+1F97", "U+1FA0", "U+1FA1", "U+1FA2", "U+1FA3", "U+1FA4", "U+1FA5", "U+1FA6",
      "U+1FA7", "U+1FB0", "U+1FB1", "U+1F70", "U+1F71", "U+1FB3", "U+1F72", "U+1F73", "U+1F74",
      "U+1F75", "U+1FC3", "U+1FD0", "U+1FD1", "U+1F76", "U+1F77", "U+1FE0", "U+1FE1", "U+1F7A",
      "U+1F7B", "U+1FE5", "U+1F78", "U+1F79", "U+1F7C", "U+1F7D", "U+1FF3", "U+03C9", "k",
      "U+00E5", "U+214E", "U+2170", "U+2171", "U+2172", "U+2173", "U+2174", "U+2175", "U+2176",
      "U+2177", "U+2178", "U+2179", "U+217A", "U+217B", "U+217C", "U+217D", "U+217E", "U+217F",
      "U+2184", "U+24D0", "U+24D1", "U+24D2", "U+24D3", "U+24D4", "U+24D5", "U+24D6", "U+24D7",
      "U+24D8", "U+24D9", "U+24DA", "U+24DB", "U+24DC", "U+24DD", "U+24DE", "U+24DF", "U+24E0",
      "U+24E1", "U+24E2", "U+24E3", "U+24E4", "U+24E5", "U+24E6", "U+24E7", "U+24E8", "U+24E9",
      "U+2C30", "U+2C31", "U+2C32", "U+2C33", "U+2C34", "U+2C35", "U+2C36", "U+2C37", "U+2C38",
      "U+2C39", "U+2C3A", "U+2C3B", "U+2C3C", "U+2C3D", "U+2C3E", "U+2C3F", "U+2C40", "U+2C41",
      "U+2C42", "U+2C43", "U+2C44", "U+2C45", "U+2C46", "U+2C47", "U+2C48", "U+2C49", "U+2C4A",
      "U+2C4B", "U+2C4C", "U+2C4D", "U+2C4E", "U+2C4F", "U+2C50", "U+2C51", "U+2C52", "U+2C53",
      "U+2C54", "U+2C55", "U+2C56", "U+2C57", "U+2C58", "U+2C59", "U+2C5A", "U+2C5B", "U+2C5C",
      "U+2C5D", "U+2C5E", "U+2C5F", "U+2C61", "U+026B", "U+1D7D", "U+027D", "U+2C68", "U+2C6A",
      "U+2C6C", "U+0251", "U+0271", "U+0250", "U+0252", "U+2C73", "U+2C76", "U+023F", "U+0240",
      "U+2C81", "U+2C83", "U+2C85", "U+2C87", "U+2C89", "U+2C8B", "U+2C8D", "U+2C8F", "U+2C91",
      "U+2C93", "U+2C95", "U+2C97", "U+2C99", "U+2C9B", "U+2C9D", "U+2C9F", "U+2CA1", "U+2CA3",
      "U+2CA5", "U+2CA7", "U+2CA9", "U+2CAB", "U+2CAD", "U+2CAF", "U+2CB1", "U+2CB3", "U+2CB5",
      "U+2CB7", "U+2CB9", "U+2CBB", "U+2CBD", "U+2CBF", "U+2CC1", "U+2CC3", "U+2CC5", "U+2CC7",
      "U+2CC9", "U+2CCB", "U+2CCD", "U+2CCF", "U+2CD1", "U+2CD3", "U+2CD5", "U+2CD7", "U+2CD9",
      "U+2CDB", "U+2CDD", "U+2CDF", "U+2CE1", "U+2CE3", "U+2CEC", "U+2CEE", "U+2CF3", "U+A641",
      "U+A643", "U+A645", "U+A647", "U+A649", "U+A64B", "U+A64D", "U+A64F", "U+A651", "U+A653",
      "U+A655", "U+A657", "U+A659", "U+A65B", "U+A65D", "U+A65F", "U+A661", "U+A663", "U+A665",
      "U+A667", "U+A669", "U+A66B", "U+A66D", "U+A681", "U+A683", "U+A685", "U+A687", "U+A689",
      "U+A68B", "U+A68D", "U+A68F", "U+A691", "U+A693", "U+A695", "U+A697", "U+A699", "U+A69B",
      "U+A723", "U+A725", "U+A727", "U+A729", "U+A72B", "U+A72D", "U+A72F", "U+A733", "U+A735",
      "U+A737", "U+A739", "U+A73B", "U+A73D", "U+A73F", "U+A741", "U+A743", "U+A745", "U+A747",
      "U+A749", "U+A74B", "U+A74D", "U+A74F", "U+A751", "U+A753", "U+A755", "U+A757", "U+A759",
      "U+A75B", "U+A75D", "U+A75F", "U+A761", "U+A763", "U+A765", "U+A767", "U+A769", "U+A76B",
      "U+A76D", "U+A76F", "U+A77A", "U+A77C", "U+1D79", "U+A77F", "U+A781", "U+A783", "U+A785",
      "U+A787", "U+A78C", "U+0265", "U+A791", "U+A793", "U+A797", "U+A799", "U+A79B", "U+A79D",
      "U+A79F", "U+A7A1", "U+A7A3", "U+A7A5", "U+A7A7", "U+A7A9", "U+0266", "U+025C", "U+0261",
      "U+026C", "U+026A", "U+029E", "U+0287", "U+029D", "U+AB53", "U+A7B5", "U+A7B7", "U+A7B9",
      "U+A7BB", "U+A7BD", "U+A7BF", "U+A7C1", "U+A7C3", "U+A794", "U+0282", "U+1D8E", "U+A7C8",
      "U+A7CA", "U+A7D1", "U+A7D7", "U+A7D9", "U+A7F6", "U+FF41", "U+FF42", "U+FF43", "U+FF44",
      "U+FF45", "U+FF46", "U+FF47", "U+FF48", "U+FF49", "U+FF4A", "U+FF4B", "U+FF4C", "U+FF4D",
      "U+FF4E", "U+FF4F", "U+FF50", "U+FF51", "U+FF52", "U+FF53", "U+FF54", "U+FF55", "U+FF56",
      "U+FF57", "U+FF58", "U+FF59", "U+FF5A", "U+10428", "U+10429", "U+1042A", "U+1042B",
      "U+1042C", "U+1042D", "U+1042E", "U+1042F", "U+10430", "U+10431", "U+10432", "U+10433",
      "U+10434", "U+10435", "U+10436", "U+10437", "U+10438", "U+10439", "U+1043A", "U+1043B",
      "U+1043C", "U+1043D", "U+1043E", "U+1043F", "U+10440", "U+10441", "U+10442", "U+10443",
      "U+10444", "U+10445", "U+10446", "U+10447", "U+10448", "U+10449", "U+1044A", "U+1044B",
      "U+1044C", "U+1044D", "U+1044E", "U+1044F", "U+104D8", "U+104D9", "U+104DA", "U+104DB",
      "U+104DC", "U+104DD", "U+104DE", "U+104DF", "U+104E0", "U+104E1", "U+104E2", "U+104E3",
      "U+104E4", "U+104E5", "U+104E6", "U+104E7", "U+104E8", "U+104E9", "U+104EA", "U+104EB",
      "U+104EC", "U+104ED", "U+104EE", "U+104EF", "U+104F0", "U+104F1", "U+104F2", "U+104F3",
      "U+104F4", "U+104F5", "U+104F6", "U+104F7", "U+104F8", "U+104F9", "U+104FA", "U+104FB",
      "U+10597", "U+10598", "U+10599", "U+1059A", "U+1059B", "U+1059C", "U+1059D", "U+1059E",
      "U+1059F", "U+105A0", "U+105A1", "U+105A3", "U+105A4", "U+105A5", "U+105A6", "U+105A7",
      "U+105A8", "U+105A9", "U+105AA", "U+105AB", "U+105AC", "U+105AD", "U+105AE", "U+105AF",
      "U+105B0", "U+105B1", "U+105B3", "U+105B4", "U+105B5", "U+105B6", "U+105B7", "U+105B8",
      "U+105B9", "U+105BB", "U+105BC", "U+10CC0", "U+10CC1", "U+10CC2", "U+10CC3", "U+10CC4",
      "U+10CC5", "U+10CC6", "U+10CC7", "U+10CC8", "U+10CC9", "U+10CCA", "U+10CCB", "U+10CCC",
      "U+10CCD", "U+10CCE", "U+10CCF", "U+10CD0", "U+10CD1", "U+10CD2", "U+10CD3", "U+10CD4",
      "U+10CD5", "U+10CD6", "U+10CD7", "U+10CD8", "U+10CD9", "U+10CDA", "U+10CDB", "U+10CDC",
      "U+10CDD", "U+10CDE", "U+10CDF", "U+10CE0", "U+10CE1", "U+10CE2", "U+10CE3", "U+10CE4",
      "U+10CE5", "U+10CE6", "U+10CE7", "U+10CE8", "U+10CE9", "U+10CEA", "U+10CEB", "U+10CEC",
      "U+10CED", "U+10CEE", "U+10CEF", "U+10CF0", "U+10CF1", "U+10CF2", "U+118C0", "U+118C1",
      "U+118C2", "U+118C3", "U+118C4", "U+118C5", "U+118C6", "U+118C7", "U+118C8", "U+118C9",
      "U+118CA", "U+118CB", "U+118CC", "U+118CD", "U+118CE", "U+118CF", "U+118D0", "U+118D1",
      "U+118D2", "U+118D3", "U+118D4", "U+118D5", "U+118D6", "U+118D7", "U+118D8", "U+118D9",
      "U+118DA", "U+118DB", "U+118DC", "U+118DD", "U+118DE", "U+118DF", "U+16E60", "U+16E61",
      "U+16E62", "U+16E63", "U+16E64", "U+16E65", "U+16E66", "U+16E67", "U+16E68", "U+16E69",
      "U+16E6A", "U+16E6B", "U+16E6C", "U+16E6D", "U+16E6E", "U+16E6F", "U+16E70", "U+16E71",
      "U+16E72", "U+16E73", "U+16E74", "U+16E75", "U+16E76", "U+16E77", "U+16E78", "U+16E79",
      "U+16E7A", "U+16E7B", "U+16E7C", "U+16E7D", "U+16E7E", "U+16E7F", "U+1E922", "U+1E923",
      "U+1E924", "U+1E925", "U+1E926", "U+1E927", "U+1E928", "U+1E929", "U+1E92A", "U+1E92B",
      "U+1E92C", "U+1E92D", "U+1E92E", "U+1E92F", "U+1E930", "U+1E931", "U+1E932", "U+1E933",
      "U+1E934", "U+1E935", "U+1E936", "U+1E937", "U+1E938", "U+1E939", "U+1E93A", "U+1E93B",
      "U+1E93C", "U+1E93D", "U+1E93E", "U+1E93F", "U+1E940", "U+1E941", "U+1E942", "U+1E943">>

UnicodeUpperSet == {UnicodeUpperChars[i] : i \in 1..Len(UnicodeUpperChars)}

\* the characters that re.IGNORECASE takes for equal beside those of equal
\* lowercase (re._casefix._EXTRA_CASES): a pair <<lo, c>> says that a pattern
\* character of lowercase lo also matches a character of lowercase c
ExtraCases ==
    {<<"i", "U+0131">>, <<"s", "U+017F">>, <<"U+00B5", "U+03BC">>, <<"U+0131", "i">>, <<"U+017F",
     "s">>, <<"U+0345", "U+03B9">>, <<"U+0345", "U+1FBE">>, <<"U+0390", "U+1FD3">>, <<"U+03B0",
     "U+1FE3">>, <<"U+03B2", "U+03D0">>, <<"U+03B5", "U+03F5">>, <<"U+03B8", "U+03D1">>,
     <<"U+03B9", "U+0345">>, <<"U+03B9", "U+1FBE">>, <<"U+03BA", "U+03F0">>, <<"U+03BC",
     "U+00B5">>, <<"U+03C0", "U+03D6">>, <<"U+03C1", "U+03F1">>, <<"U+03C2", "U+03C3">>,
     <<"U+03C3", "U+03C2">>, <<"U+03C6", "U+03D5">>, <<"U+03D0", "U+03B2">>, <<"U+03D1",
     "U+03B8">>, <<"U+03D5", "U+03C6">>, <<"U+03D6", "U+03C0">>, <<"U+03F0", "U+03BA">>,
     <<"U+03F1", "U+03C1">>, <<"U+03F5", "U+03B5">>, <<"U+0432", "U+1C80">>, <<"U+0434",
     "U+1C81">>, <<"U+043E", "U+1C82">>, <<"U+0441", "U+1C83">>, <<"U+0442", "U+1C84">>,
     <<"U+0442", "U+1C85">>, <<"U+044A", "U+1C86">>, <<"U+0463", "U+1C87">>, <<"U+1C80",
     "U+0432">>, <<"U+1C81", "U+0434">>, <<"U+1C82", "U+043E">>, <<"U+1C83", "U+0441">>,
     <<"U+1C84", "U+0442">>, <<"U+1C84", "U+1C85">>, <<"U+1C85", "U+0442">>, <<"U+1C85",
     "U+1C84">>, <<"U+1C86", "U+044A">>, <<"U+1C87", "U+0463">>, <<"U+1C88", "U+A64B">>,
     <<"U+1E61", "U+1E9B">>, <<"U+1E9B", "U+1E61">>, <<"U+1FBE", "U+0345">>, <<"U+1FBE",
     "U+03B9">>, <<"U+1FD3", "U+0390">>, <<"U+1FE3", "U+03B0">>, <<"U+A64B", "U+1C88">>,
     <<"U+FB05", "U+FB06">>, <<"U+FB06", "U+FB05">>}

\* the characters str.lower() skips when it looks for the letter before and the
\* letter after a capital sigma (Case_Ignorable)
CaseIgnorableChars ==
    {"'", ".", ":", "^", "U+0060", "U+00A8", "U+00AD", "U+00AF", "U+00B4", "U+00B7", "U+00B8",
     "U+02B0", "U+02B1", "U+02B2", "U+02B3", "U+02B4", "U+02B5", "U+02B6", "U+02B7", "U+02B8",
     "U+02B9", "U+02BA", "U+02BB", "U+02BC", "U+02BD", "U+02BE", "U+02BF", "U+02C0", "U+02C1",
     "U+02C2", "U+02C3", "U+02C4", "U+02C5", "U+02C6", "U+02C7", "U+02C8", "U+02C9", "U+02CA",
     "U+02CB", "U+02CC", "U+02CD", "U+02CE", "U+02CF", "U+02D0", "U+02D1", "U+02D2", "U+02D3",
     "U+02D4", "U+02D5", "U+02D6", "U+02D7", "U+02D8", "U+02D9", "U+02DA", "U+02DB", "U+02DC",
     "U+02DD", "U+02DE", "U+02DF", "U+02E0", "U+02E1", "U+02E2", "U+02E3", "U+02E4", "U+02E5",
     "U+02E6", "U+02E7", "U+02E8", "U+02E9", "U+02EA", "U+02EB", "U+02EC", "U+02ED", "U+02EE",
     "U+02EF", "U+02F0", "U+02F1", "U+02F2", "U+02F3", "U+02F4", "U+02F5", "U+02F6", "U+02F7",
     "U+02F8", "U+02F9", "U+02FA", "U+02FB", "U+02FC", "U+02FD", "U+02FE", "U+02FF", "U+0300",
     "U+0301", "U+0302", "U+0303", "U+0304", "U+0305", "U+0306", "U+0307", "U+0308", "U+0309",
     "U+030A", "U+030B", "U+030C", "U+030D", "U+030E", "U+030F", "U+0310", "U+0311", "U+0312",
     "U+0313", "U+0314", "U+0315", "U+0316", "U+0317", "U+0318", "U+0319", "U+031A", "U+031B",
     "U+031C", "U+031D", "U+031E", "U+031F", "U+0320", "U+0321", "U+0322", "U+0323", "U+0324",
     "U+0325", "U+0326", "U+0327", "U+0328", "U+0329", "U+032A", "U+032B", "U+032C", "U+032D",
     "U+032E", "U+032F", "U+0330", "U+0331", "U+0332", "U+0333", "U+0334", "U+0335", "U+0336",
     "U+0337", "U+0338", "U+0339", "U+033A", "U+033B", "U+033C", "U+033D", "U+033E", "U+033F",
     "U+0340", "U+0341", "U+0342", "U+0343", "U+0344", "U+0345", "U+0346", "U+0347", "U+0348",
     "U+0349", "U+034A", "U+034B", "U+034C", "U+034D", "U+034E", "U+034F", "U+0350", "U+0351",
     "U+0352", "U+0353", "U+0354", "U+0355", "U+0356", "U+0357", "U+0358", "U+0359", "U+035A",
     "U+035B", "U+035C", "U+035D", "U+035E", "U+035F", "U+0360", "U+0361", "U+0362", "U+0363",
     "U+0364", "U+0365", "U+0366", "U+0367", "U+0368", "U+0369", "U+036A", "U+036B", "U+036C",
     "U+036D", "U+036E", "U+036F", "U+0374", "U+0375", "U+037A", "U+0384", "U+0385", "U+0387",
     "U+0483", "U+0484", "U+0485", "U+0486", "U+0487", "U+0488", "U+0489", "U+0559", "U+055F",
     "U+0591", "U+0592", "U+0593", "U+0594", "U+0595", "U+0596", "U+0597", "U+0598", "U+0599",
     "U+059A", "U+059B", "U+059C", "U+059D", "U+059E", "U+059F", "U+05A0", "U+05A1", "U+05A2",
     "U+05A3", "U+05A4", "U+05A5", "U+05A6", "U+05A7", "U+05A8", "U+05A9", "U+05AA", "U+05AB",
     "U+05AC", "U+05AD", "U+05AE", "U+05AF", "U+05B0", "U+05B1", "U+05B2", "U+05B3", "U+05B4",
     "U+05B5", "U+05B6", "U+05B7", "U+05B8", "U+05B9", "U+05BA", "U+05BB", "U+05BC", "U+05BD",
     "U+05BF", "U+05C1", "U+05C2", "U+05C4", "U+05C5", "U+05C7", "U+05F4", "U+0600", "U+0601",
     "U+0602", "U+0603", "U+0604", "U+0605", "U+0610", "U+0611", "U+0612", "U+0613", "U+0614",
     "U+0615", "U+0616", "U+0617", "U+0618", "U+0619", "U+061A", "U+061C", "U+0640", "U+064B",
     "U+064C", "U+064D", "U+064E", "U+064F", "U+0650", "U+0651", "U+0652", "U+0653", "U+0654",
     "U+0655", "U+0656", "U+0657", "U+0658", "U+0659", "U+065A", "U+065B", "U+065C", "U+065D",
     "U+065E", "U+065F", "U+0670", "U+06D6", "U+06D7", "U+06D8", "U+06D9", "U+06DA", "U+06DB",
     "U+06DC", "U+06DD", "U+06DF", "U+06E0", "U+06E1", "U+06E2", "U+06E3", "U+06E4", "U+06E5",
     "U+06E6", "U+06E7", "U+06E8", "U+06EA", "U+06EB", "U+06EC", "U+06ED", "U+070F", "U+0711",
     "U+0730", "U+0731", "U+0732", "U+0733", "U+0734", "U+0735", "U+0736", "U+0737", "U+0738",
     "U+0739", "U+073A", "U+073B", "U+073C", "U+073D", "U+073E", "U+073F", "U+0740", "U+0741",
     "U+0742", "U+0743", "U+0744", "U+0745", "U+0746", "U+0747", "U+0748", "U+0749", "U+074A",
     "U+07A6", "U+07A7", "U+07A8", "U+07A9", "U+07AA", "U+07AB", "U+07AC", "U+07AD", "U+07AE",
     "U+07AF", "U+07B0", "U+07EB", "U+07EC", "U+07ED", "U+07EE", "U+07EF", "U+07F0", "U+07F1",
     "U+07F2", "U+07F3", "U+07F4", "U+07F5", "U+07FA", "U+07FD", "U+0816", "U+0817", "U+0818",
     "U+0819", "U+081A", "U+081B", "U+081C", "U+081D", "U+081E", "U+081F", "U+0820", "U+0821",
     "U+0822", "U+0823", "U+0824", "U+0825", "U+0826", "U+0827", "U+0828", "U+0829", "U+082A",
     "U+082B", "U+082C", "U+082D", "U+0859", "U+085A", "U+085B", "U+0888", "U+0890", "U+0891",
     "U+0898", "U+0899", "U+089A", "U+089B", "U+089C", "U+089D", "U+089E", "U+089F", "U+08C9",
     "U+08CA", "U+08CB", "U+08CC", "U+08CD", "U+08CE", "U+08CF", "U+08D0", "U+08D1", "U+08D2",
     "U+08D3", "U+08D4", "U+08D5", "U+08D6", "U+08D7", "U+08D8", "U+08D9", "U+08DA", "U+08DB",
     "U+08DC", "U+08DD", "U+08DE", "U+08DF", "U+08E0", "U+08E1", "U+08E2", "U+08E3", "U+08E4",
     "U+08E5", "U+08E6", "U+08E7", "U+08E8", "U+08E9", "U+08EA", "U+08EB", "U+08EC", "U+08ED",
     "U+08EE", "U+08EF", "U+08F0", "U+08F1", "U+08F2", "U+08F3", "U+08F4", "U+08F5", "U+08F6",
     "U+08F7", "U+08F8", "U+08F9", "U+08FA", "U+08FB", "U+08FC", "U+08FD", "U+08FE", "U+08FF",
     "U+0900", "U+0901", "U+0902", "U+093A", "U+093C", "U+0941", "U+0942", "U+0943", "U+0944",
     "U+0945", "U+0946", "U+0947", "U+0948", "U+094D", "U+0951", "U+0952", "U+0953", "U+0954",
     "U+0955", "U+0956", "U+0957", "U+0962", "U+0963", "U+0971", "U+0981", "U+09BC", "U+09C1",
     "U+09C2", "U+09C3", "U+09C4", "U+09CD", "U+09E2", "U+09E3", "U+09FE", "U+0A01", "U+0A02",
     "U+0A3C", "U+0A41", "U+0A42", "U+0A47", "U+0A48", "U+0A4B", "U+0A4C", "U+0A4D", "U+0A51",
     "U+0A70", "U+0A71", "U+0A75", "U+0A81", "U+0A82", "U+0ABC", "U+0AC1", "U+0AC2", "U+0AC3",
     "U+0AC4", "U+0AC5", "U+0AC7", "U+0AC8", "U+0ACD", "U+0AE2", "U+0AE3", "U+0AFA", "U+0AFB",
     "U+0AFC", "U+0AFD", "U+0AFE", "U+0AFF", "U+0B01", "U+0B3C", "U+0B3F", "U+0B41", "U+0B42",
     "U+0B43", "U+0B44", "U+0B4D", "U+0B55", "U+0B56", "U+0B62", "U+0B63", "U+0B82", "U+0BC0",
     "U+0BCD", "U+0C00", "U+0C04", "U+0C3C", "U+0C3E", "U+0C3F", "U+0C40", "U+0C46", "U+0C47",
     "U+0C48", "U+0C4A", "U+0C4B", "U+0C4C", "U+0C4D", "U+0C55", "U+0C56", "U+0C62", "U+0C63",
     "U+0C81", "U+0CBC", "U+0CBF", "U+0CC6", "U+0CCC", "U+0CCD", "U+0CE2", "U+0CE3", "U+0D00",
     "U+0D01", "U+0D3B", "U+0D3C", "U+0D41", "U+0D42", "U+0D43", "U+0D44", "U+0D4D", "U+0D62",
     "U+0D63", "U+0D81", "U+0DCA", "U+0DD2", "U+0DD3", "U+0DD4", "U+0DD6", "U+0E31", "U+0E34",
     "U+0E35", "U+0E36", "U+0E37", "U+0E38", "U+0E39", "U+0E3A", "U+0E46", "U+0E47", "U+0E48",
     "U+0E49", "U+0E4A", "U+0E4B", "U+0E4C", "U+0E4D", "U+0E4E", "U+0EB1", "U+0EB4", "U+0EB5",
     "U+0EB6", "U+0EB7", "U+0EB8", "U+0EB9", "U+0EBA", "U+0EBB", "U+0EBC", "U+0EC6", "U+0EC8",
     "U+0EC9", "U+0ECA", "U+0ECB", "U+0ECC", "U+0ECD", "U+0F18", "U+0F19", "U+0F35", "U+0F37",
     "U+0F39", "U+0F71", "U+0F72", "U+0F73", "U+0F74", "U+0F75", "U+0F76", "U+0F77", "U+0F78",
     "U+0F79", "U+0F7A", "U+0F7B", "U+0F7C", "U+0F7D", "U+0F7E", "U+0F80", "U+0F81", "U+0F82",
     "U+0F83", "U+0F84", "U+0F86", "U+0F87", "U+0F8D", "U+0F8E", "U+0F8F", "U+0F90", "U+0F91",
     "U+0F92", "U+0F93", "U+0F94", "U+0F95", "U+0F96", "U+0F97", "U+0F99", "U+0F9A", "U+0F9B",
     "U+0F9C", "U+0F9D", "U+0F9E", "U+0F9F", "U+0FA0", "U+0FA1", "U+0FA2", "U+0FA3", "U+0FA4",
     "U+0FA5", "U+0FA6", "U+0FA7", "U+0FA8", "U+0FA9", "U+0FAA", "U+0FAB", "U+0FAC", "U+0FAD",
     "U+0FAE", "U+0FAF", "U+0FB0", "U+0FB1", "U+0FB2", "U+0FB3", "U+0FB4", "U+0FB5", "U+0FB6",
     "U+0FB7", "U+0FB8", "U+0FB9", "U+0FBA", "U+0FBB", "U+0FBC", "U+0FC6", "U+102D", "U+102E",
     "U+102F", "U+1030", "U+1032", "U+1033", "U+1034", "U+1035", "U+1036", "U+1037", "U+1039",
     "U+103A", "U+103D", "U+103E", "U+1058", "U+1059", "U+105E", "U+105F", "U+1060", "U+1071",
     "U+1072", "U+1073", "U+1074", "U+1082", "U+1085", "U+1086", "U+108D", "U+109D", "U+10FC",
     "U+135D", "U+135E", "U+135F", "U+1712", "U+1713", "U+1714", "U+1732", "U+1733", "U+1752",
     "U+1753", "U+1772", "U+1773", "U+17B4", "U+17B5", "U+17B7", "U+17B8", "U+17B9", "U+17BA",
     "U+17BB", "U+17BC", "U+17BD", "U+17C6", "U+17C9", "U+17CA", "U+17CB", "U+17CC", "U+17CD",
     "U+17CE", "U+17CF", "U+17D0", "U+17D1", "U+17D2", "U+17D3", "U+17D7", "U+17DD", "U+180B",
     "U+180C", "U+180D", "U+180E", "U+180F", "U+1843", "U+1885", "U+1886", "U+18A9", "U+1920",
     "U+1921", "U+1922", "U+1927", "U+1928", "U+1932", "U+1939", "U+193A", "U+193B", "U+1A17",
     "U+1A18", "U+1A1B", "U+1A56", "U+1A58", "U+1A59", "U+1A5A", "U+1A5B", "U+1A5C", "U+1A5D",
     "U+1A5E", "U+1A60", "U+1A62", "U+1A65", "U+1A66", "U+1A67", "U+1A68", "U+1A69", "U+1A6A",
     "U+1A6B", "U+1A6C", "U+1A73", "U+1A74", "U+1A75", "U+1A76", "U+1A77", "U+1A78", "U+1A79",
     "U+1A7A", "U+1A7B", "U+1A7C", "U+1A7F", "U+1AA7", "U+1AB0", "U+1AB1", "U+1AB2", "U+1AB3",
     "U+1AB4", "U+1AB5", "U+1AB6", "U+1AB7", "U+1AB8", "U+1AB9", "U+1ABA", "U+1ABB", "U+1ABC",
     "U+1ABD", "U+1ABE", "U+1ABF", "U+1AC0", "U+1AC1", "U+1AC2", "U+1AC3", "U+1AC4", "U+1AC5",
     "U+1AC6", "U+1AC7", "U+1AC8", "U+1AC9", "U+1ACA", "U+1ACB", "U+1ACC", "U+1ACD", "U+1ACE",
     "U+1B00", "U+1B01", "U+1B02", "U+1B03", "U+1B34", "U+1B36", "U+1B37", "U+1B38", "U+1B39",
     "U+1B3A", "U+1B3C", "U+1B42", "U+1B6B", "U+1B6C", "U+1B6D", "U+1B6E", "U+1B6F", "U+1B70",
     "U+1B71", "U+1B72", "U+1B73", "U+1B80", "U+1B81", "U+1BA2", "U+1BA3", "U+1BA4", "U+1BA5",
     "U+1BA8", "U+1BA9", "U+1BAB", "U+1BAC", "U+1BAD", "U+1BE6", "U+1BE8", "U+1BE9", "U+1BED",
     "U+1BEF", "U+1BF0", "U+1BF1", "U+1C2C", "U+1C2D", "U+1C2E", "U+1C2F", "U+1C30", "U+1C31",
     "U+1C32", "U+1C33", "U+1C36", "U+1C37", "U+1C78", "U+1C79", "U+1C7A", "U+1C7B", "U+1C7C",
     "U+1C7D", "U+1CD0", "U+1CD1", "U+1CD2", "U+1CD4", "U+1CD5", "U+1CD6", "U+1CD7", "U+1CD8",
     "U+1CD9", "U+1CDA", "U+1CDB", "U+1CDC", "U+1CDD", "U+1CDE", "U+1CDF", "U+1CE0", "U+1CE2",
     "U+1CE3", "U+1CE4", "U+1CE5", "U+1CE6", "U+1CE7", "U+1CE8", "U+1CED", "U+1CF4", "U+1CF8",
     "U+1CF9", "U+1D2C", "U+1D2D", "U+1D2E", "U+1D2F", "U+1D30", "U+1D31", "U+1D32", "U+1D33",
     "U+1D34", "U+1D35", "U+1D36", "U+1D37", "U+1D38", "U+1D39", "U+1D3A", "U+1D3B", "U+1D3C",
     "U+1D3D", "U+1D3E", "U+1D3F", "U+1D40", "U+1D41", "U+1D42", "U+1D43", "U+1D44", "U+1D45",
     "U+1D46", "U+1D47", "U+1D48", "U+1D49", "U+1D4A", "U+1D4B", "U+1D4C", "U+1D4D", "U+1D4E",
     "U+1D4F", "U+1D50", "U+1D51", "U+1D52", "U+1D53", "U+1D54", "U+1D55", "U+1D56", "U+1D57",
     "U+1D58", "U+1D59", "U+1D5A", "U+1D5B", "U+1D5C", "U+1D5D", "U+1D5E", "U+1D5F", "U+1D60",
     "U+1D61", "U+1D62", "U+1D63", "U+1D64", "U+1D65", "U+1D66", "U+1D67", "U+1D68", "U+1D69",
     "U+1D6A", "U+1D78", "U+1D9B", "U+1D9C", "U+1D9D", "U+1D9E", "U+1D9F", "U+1DA0", "U+1DA1",
     "U+1DA2", "U+1DA3", "U+1DA4", "U+1DA5", "U+1DA6", "U+1DA7", "U+1DA8", "U+1DA9", "U+1DAA",
     "U+1DAB", "U+1DAC", "U+1DAD", "U+1DAE", "U+1DAF", "U+1DB0", "U+1DB1", "U+1DB2", "U+1DB3",
     "U+1DB4", "U+1DB5", "U+1DB6", "U+1DB7", "U+1DB8", "U+1DB9", "U+1DBA", "U+1DBB", "U+1DBC",
     "U+1DBD", "U+1DBE", "U+1DBF", "U+1DC0", "U+1DC1", "U+1DC2", "U+1DC3", "U+1DC4", "U+1DC5",
     "U+1DC6", "U+1DC7", "U+1DC8", "U+1DC9", "U+1DCA", "U+1DCB", "U+1DCC", "U+1DCD", "U+1DCE",
     "U+1DCF", "U+1DD0", "U+1DD1", "U+1DD2", "U+1DD3", "U+1DD4", "U+1DD5", "U+1DD6", "U+1DD7",
     "U+1DD8", "U+1DD9", "U+1DDA", "U+1DDB", "U+1DDC", "U+1DDD", "U+1DDE", "U+1DDF", "U+1DE0",
     "U+1DE1", "U+1DE2", "U+1DE3", "U+1DE4", "U+1DE5", "U+1DE6", "U+1DE7", "U+1DE8", "U+1DE9",
     "U+1DEA", "U+1DEB", "U+1DEC", "U+1DED", "U+1DEE", "U+1DEF", "U+1DF0", "U+1DF1", "U+1DF2",
     "U+1DF3", "U+1DF4", "U+1DF5", "U+1DF6", "U+1DF7", "U+1DF8", "U+1DF9", "U+1DFA", "U+1DFB",
     "U+1DFC", "U+1DFD", "U+1DFE", "U+1DFF", "U+1FBD", "U+1FBF", "U+1FC0", "U+1FC1", "U+1FCD",
     "U+1FCE", "U+1FCF", "U+1FDD", "U+1FDE", "U+1FDF", "U+1FED", "U+1FEE", "U+1FEF", "U+1FFD",
     "U+1FFE", "U+200B", "U+200C", "U+200D", "U+200E", "U+200F", "U+2018", "U+2019", "U+2024",
     "U+2027", "U+202A", "U+202B", "U+202C", "U+202D", "U+202E", "U+2060", "U+2061", "U+2062",
     "U+2063", "U+2064", "U+2066", "U+2067", "U+2068", "U+2069", "U+206A", "U+206B", "U+206C",
     "U+206D", "U+206E", "U+206F", "U+2071", "U+207F", "U+2090", "U+2091", "U+2092", "U+2093",
     "U+2094", "U+2095", "U+2096", "U+2097", "U+2098", "U+2099", "U+209A", "U+209B", "U+209C",
     "U+20D0", "U+20D1", "U+20D2", "U+20D3", "U+20D4", "U+20D5", "U+20D6", "U+20D7", "U+20D8",
     "U+20D9", "U+20DA", "U+20DB", "U+20DC", "U+20DD", "U+20DE", "U+20DF", "U+20E0", "U+20E1",
     "U+20E2", "U+20E3", "U+20E4", "U+20E5", "U+20E6", "U+20E7", "U+20E8", "U+20E9", "U+20EA",
     "U+20EB", "U+20EC", "U+20ED", "U+20EE", "U+20EF", "U+20F0", "U+2C7C", "U+2C7D", "U+2CEF",
     "U+2CF0", "U+2CF1", "U+2D6F", "U+2D7F", "U+2DE0", "U+2DE1", "U+2DE2", "U+2DE3", "U+2DE4",
     "U+2DE5", "U+2DE6", "U+2DE7", "U+2DE8", "U+2DE9", "U+2DEA", "U+2DEB", "U+2DEC", "U+2DED",
     "U+2DEE", "U+2DEF", "U+2DF0", "U+2DF1", "U+2DF2", "U+2DF3", "U+2DF4", "U+2DF5", "U+2DF6",
     "U+2DF7", "U+2DF8", "U+2DF9", "U+2DFA", "U+2DFB", "U+2DFC", "U+2DFD", "U+2DFE", "U+2DFF",
     "U+2E2F", "U+3005", "U+302A", "U+302B", "U+302C", "U+302D", "U+3031", "U+3032", "U+3033",
     "U+3034", "U+3035", "U+303B", "U+3099", "U+309A", "U+309B", "U+309C", "U+309D", "U+309E",
     "U+30FC", "U+30FD", "U+30FE", "U+A015", "U+A4F8", "U+A4F9", "U+A4FA", "U+A4FB", "U+A4FC",
     "U+A4FD", "U+A60C", "U+A66F", "U+A670", "U+A671", "U+A672", "U+A674", "U+A675", "U+A676",
     "U+A677", "U+A678", "U+A679", "U+A67A", "U+A67B", "U+A67C", "U+A67D", "U+A67F", "U+A69C",
     "U+A69D", "U+A69E", "U+A69F", "U+A6F0", "U+A6F1", "U+A700", "U+A701", "U+A702", "U+A703",
     "U+A704", "U+A705", "U+A706", "U+A707", "U+A708", "U+A709", "U+A70A", "U+A70B", "U+A70C",
     "U+A70D", "U+A70E", "U+A70F", "U+A710", "U+A711", "U+A712", "U+A713", "U+A714", "U+A715",
     "U+A716", "U+A717", "U+A718", "U+A719", "U+A71A", "U+A71B", "U+A71C", "U+A71D", "U+A71E",
     "U+A71F", "U+A720", "U+A721", "U+A770", "U+A788", "U+A789", "U+A78A", "U+A7F2", "U+A7F3",
     "U+A7F4", "U+A7F8", "U+A7F9", "U+A802", "U+A806", "U+A80B", "U+A825", "U+A826", "U+A82C",
     "U+A8C4", "U+A8C5", "U+A8E0", "U+A8E1", "U+A8E2", "U+A8E3", "U+A8E4", "U+A8E5", "U+A8E6",
     "U+A8E7", "U+A8E8", "U+A8E9", "U+A8EA", "U+A8EB", "U+A8EC", "U+A8ED", "U+A8EE", "U+A8EF",
     "U+A8F0", "U+A8F1", "U+A8FF", "U+A926", "U+A927", "U+A928", "U+A929", "U+A92A", "U+A92B",
     "U+A92C", "U+A92D", "U+A947", "U+A948", "U+A949", "U+A94A", "U+A94B", "U+A94C", "U+A94D",
     "U+A94E", "U+A94F", "U+A950", "U+A951", "U+A980", "U+A981", "U+A982", "U+A9B3", "U+A9B6",
     "U+A9B7", "U+A9B8", "U+A9B9", "U+A9BC", "U+A9BD", "U+A9CF", "U+A9E5", "U+A9E6", "U+AA29",
     "U+AA2A", "U+AA2B", "U+AA2C", "U+AA2D", "U+AA2E", "U+AA31", "U+AA32", "U+AA35", "U+AA36",
     "U+AA43", "U+AA4C", "U+AA70", "U+AA7C", "U+AAB0", "U+AAB2", "U+AAB3", "U+AAB4", "U+AAB7",
     "U+AAB8", "U+AABE", "U+AABF", "U+AAC1", "U+AADD", "U+AAEC", "U+AAED", "U+AAF3", "U+AAF4",
     "U+AAF6", "U+AB5B", "U+AB5C", "U+AB5D", "U+AB5E", "U+AB5F", "U+AB69", "U+AB6A", "U+AB6B",
     "U+ABE5", "U+ABE8", "U+ABED", "U+FB1E", "U+FBB2", "U+FBB3", "U+FBB4", "U+FBB5", "U+FBB6",
     "U+FBB7", "U+FBB8", "U+FBB9", "U+FBBA", "U+FBBB", "U+FBBC", "U+FBBD", "U+FBBE", "U+FBBF",
     "U+FBC0", "U+FBC1", "U+FBC2", "U+FE00", "U+FE01", "U+FE02", "U+FE03", "U+FE04", "U+FE05",
     "U+FE06", "U+FE07", "U+FE08", "U+FE09", "U+FE0A", "U+FE0B", "U+FE0C", "U+FE0D", "U+FE0E",
     "U+FE0F", "U+FE13", "U+FE20", "U+FE21", "U+FE22", "U+FE23", "U+FE24", "U+FE25", "U+FE26",
     "U+FE27", "U+FE28", "U+FE29", "U+FE2A", "U+FE2B", "U+FE2C", "U+FE2D", "U+FE2E", "U+FE2F",
     "U+FE52", "U+FE55", "U+FEFF", "U+FF07", "U+FF0E", "U+FF1A", "U+FF3E", "U+FF40", "U+FF70",
     "U+FF9E", "U+FF9F", "U+FFE3", "U+FFF9", "U+FFFA", "U+FFFB", "U+101FD", "U+102E0", "U+10376",
     "U+10377", "U+10378", "U+10379", "U+1037A", "U+10780", "U+10781", "U+10782", "U+10783",
     "U+10784", "U+10785", "U+10787", "U+10788", "U+10789", "U+1078A", "U+1078B", "U+1078C",
     "U+1078D", "U+1078E", "U+1078F", "U+10790", "U+10791", "U+10792", "U+10793", "U+10794",
     "U+10795", "U+10796", "U+10797", "U+10798", "U+10799", "U+1079A", "U+1079B", "U+1079C",
     "U+1079D", "U+1079E", "U+1079F", "U+107A0", "U+107A1", "U+107A2", "U+107A3", "U+107A4",
     "U+107A5", "U+107A6", "U+107A7", "U+107A8", "U+107A9", "U+107AA", "U+107AB", "U+107AC",
     "U+107AD", "U+107AE", "U+107AF", "U+107B0", "U+107B2", "U+107B3", "U+107B4", "U+107B5",
     "U+107B6", "U+107B7", "U+107B8", "U+107B9", "U+107BA", "U+10A01", "U+10A02", "U+10A03",
     "U+10A05", "U+10A06", "U+10A0C", "U+10A0D", "U+10A0E", "U+10A0F", "U+10A38", "U+10A39",
     "U+10A3A", "U+10A3F", "U+10AE5", "U+10AE6", "U+10D24", "U+10D25", "U+10D26", "U+10D27",
     "U+10EAB", "U+10EAC", "U+10F46", "U+10F47", "U+10F48", "U+10F49", "U+10F4A", "U+10F4B",
     "U+10F4C", "U+10F4D", "U+10F4E", "U+10F4F", "U+10F50", "U+10F82", "U+10F83", "U+10F84",
     "U+10F85", "U+11001", "U+11038", "U+11039", "U+1103A", "U+1103B", "U+1103C", "U+1103D",
     "U+1103E", "U+1103F", "U+11040", "U+11041", "U+11042", "U+11043", "U+11044", "U+11045",
     "U+11046", "U+11070", "U+11073", "U+11074", "U+1107F", "U+11080", "U+11081", "U+110B3",
     "U+110B4", "U+110B5", "U+110B6", "U+110B9", "U+110BA", "U+110BD", "U+110C2", "U+110CD",
     "U+11100", "U+11101", "U+11102", "U+11127", "U+11128", "U+11129", "U+1112A", "U+1112B",
     "U+1112D", "U+1112E", "U+1112F", "U+11130", "U+11131", "U+11132", "U+11133", "U+11134",
     "U+11173", "U+11180", "U+11181", "U+111B6", "U+111B7", "U+111B8", "U+111B9", "U+111BA",
     "U+111BB", "U+111BC", "U+111BD", "U+111BE", "U+111C9", "U+111CA", "U+111CB", "U+111CC",
     "U+111CF", "U+1122F", "U+11230", "U+11231", "U+11234", "U+11236", "U+11237", "U+1123E",
     "U+112DF", "U+112E3", "U+112E4", "U+112E5", "U+112E6", "U+112E7", "U+112E8", "U+112E9",
     "U+112EA", "U+11300", "U+11301", "U+1133B", "U+1133C", "U+11340", "U+11366", "U+11367",
     "U+11368", "U+11369", "U+1136A", "U+1136B", "U+1136C", "U+11370", "U+11371", "U+11372",
     "U+11373", "U+11374", "U+11438", "U+11439", "U+1143A", "U+1143B", "U+1143C", "U+1143D",
     "U+1143E", "U+1143F", "U+11442", "U+11443", "U+11444", "U+11446", "U+1145E", "U+114B3",
     "U+114B4", "U+114B5", "U+114B6", "U+114B7", "U+114B8", "U+114BA", "U+114BF", "U+114C0",
     "U+114C2", "U+114C3", "U+115B2", "U+115B3", "U+115B4", "U+115B5", "U+115BC", "U+115BD",
     "U+115BF", "U+115C0", "U+115DC", "U+115DD", "U+11633", "U+11634", "U+11635", "U+11636",
     "U+11637", "U+11638", "U+11639", "U+1163A", "U+1163D", "U+1163F", "U+11640", "U+116AB",
     "U+116AD", "U+116B0", "U+116B1", "U+116B2", "U+116B3", "U+116B4", "U+116B5", "U+116B7",
     "U+1171D", "U+1171E", "U+1171F", "U+11722", "U+11723", "U+11724", "U+11725", "U+11727",
     "U+11728", "U+11729", "U+1172A", "U+1172B", "U+1182F", "U+11830", "U+11831", "U+11832",
     "U+11833", "U+11834", "U+11835", "U+11836", "U+11837", "U+11839", "U+1183A", "U+1193B",
     "U+1193C", "U+1193E", "U+11943", "U+119D4", "U+119D5", "U+119D6", "U+119D7", "U+119DA",
     "U+119DB", "U+119E0", "U+11A01", "U+11A02", "U+11A03", "U+11A04", "U+11A05", "U+11A06",
     "U+11A07", "U+11A08", "U+11A09", "U+11A0A", "U+11A33", "U+11A34", "U+11A35", "U+11A36",
     "U+11A37", "U+11A38", "U+11A3B", "U+11A3C", "U+11A3D", "U+11A3E", "U+11A47", "U+11A51",
     "U+11A52", "U+11A53", "U+11A54", "U+11A55", "U+11A56", "U+11A59", "U+11A5A", "U+11A5B",
     "U+11A8A", "U+11A8B", "U+11A8C", "U+11A8D", "U+11A8E", "U+11A8F", "U+11A90", "U+11A91",
     "U+11A92", "U+11A93", "U+11A94", "U+11A95", "U+11A96", "U+11A98", "U+11A99", "U+11C30",
     "U+11C31", "U+11C32", "U+11C33", "U+11C34", "U+11C35", "U+11C36", "U+11C38", "U+11C39",
     "U+11C3A", "U+11C3B", "U+11C3C", "U+11C3D", "U+11C3F", "U+11C92", "U+11C93", "U+11C94",
     "U+11C95", "U+11C96", "U+11C97", "U+11C98", "U+11C99", "U+11C9A", "U+11C9B", "U+11C9C",
     "U+11C9D", "U+11C9E", "U+11C9F", "U+11CA0", "U+11CA1", "U+11CA2", "U+11CA3", "U+11CA4",
     "U+11CA5", "U+11CA6", "U+11CA7", "U+11CAA", "U+11CAB", "U+11CAC", "U+11CAD", "U+11CAE",
     "U+11CAF", "U+11CB0", "U+11CB2", "U+11CB3", "U+11CB5", "U+11CB6", "U+11D31", "U+11D32",
     "U+11D33", "U+11D34", "U+11D35", "U+11D36", "U+11D3A", "U+11D3C", "U+11D3D", "U+11D3F",
     "U+11D40", "U+11D41", "U+11D42", "U+11D43", "U+11D44", "U+11D45", "U+11D47", "U+11D90",
     "U+11D91", "U+11D95", "U+11D97", "U+11EF3", "U+11EF4", "U+13430", "U+13431", "U+13432",
     "U+13433", "U+13434", "U+13435", "U+13436", "U+13437", "U+13438", "U+16AF0", "U+16AF1",
     "U+16AF2", "U+16AF3", "U+16AF4", "U+16B30", "U+16B31", "U+16B32", "U+16B33", "U+16B34",
     "U+16B35", "U+16B36", "U+16B40", "U+16B41", "U+16B42", "U+16B43", "U+16F4F", "U+16F8F",
     "U+16F90", "U+16F91", "U+16F92", "U+16F93", "U+16F94", "U+16F95", "U+16F96", "U+16F97",
     "U+16F98", "U+16F99", "U+16F9A", "U+16F9B", "U+16F9C", "U+16F9D", "U+16F9E", "U+16F9F",
     "U+16FE0", "U+16FE1", "U+16FE3", "U+16FE4", "U+1AFF0", "U+1AFF1", "U+1AFF2", "U+1AFF3",
     "U+1AFF5", "U+1AFF6", "U+1AFF7", "U+1AFF8", "U+1AFF9", "U+1AFFA", "U+1AFFB", "U+1AFFD",
     "U+1AFFE", "U+1BC9D", "U+1BC9E", "U+1BCA0", "U+1BCA1", "U+1BCA2", "U+1BCA3", "U+1CF00",
     "U+1CF01", "U+1CF02", "U+1CF03", "U+1CF04", "U+1CF05", "U+1CF06", "U+1CF07", "U+1CF08",
     "U+1CF09", "U+1CF0A", "U+1CF0B", "U+1CF0C", "U+1CF0D", "U+1CF0E", "U+1CF0F", "U+1CF10",
     "U+1CF11", "U+1CF12", "U+1CF13", "U+1CF14", "U+1CF15", "U+1CF16", "U+1CF17", "U+1CF18",
     "U+1CF19", "U+1CF1A", "U+1CF1B", "U+1CF1C", "U+1CF1D", "U+1CF1E", "U+1CF1F", "U+1CF20",
     "U+1CF21", "U+1CF22", "U+1CF23", "U+1CF24", "U+1CF25", "U+1CF26", "U+1CF27", "U+1CF28",
     "U+1CF29", "U+1CF2A", "U+1CF2B", "U+1CF2C", "U+1CF2D", "U+1CF30", "U+1CF31", "U+1CF32",
     "U+1CF33", "U+1CF34", "U+1CF35", "U+1CF36", "U+1CF37", "U+1CF38", "U+1CF39", "U+1CF3A",
     "U+1CF3B", "U+1CF3C", "U+1CF3D", "U+1CF3E", "U+1CF3F", "U+1CF40", "U+1CF41", "U+1CF42",
     "U+1CF43", "U+1CF44", "U+1CF45", "U+1CF46", "U+1D167", "U+1D168", "U+1D169", "U+1D173",
     "U+1D174", "U+1D175", "U+1D176", "U+1D177", "U+1D178", "U+1D179", "U+1D17A", "U+1D17B",
     "U+1D17C", "U+1D17D", "U+1D17E", "U+1D17F", "U+1D180", "U+1D181", "U+1D182", "U+1D185",
     "U+1D186", "U+1D187", "U+1D188", "U+1D189", "U+1D18A", "U+1D18B", "U+1D1AA", "U+1D1AB",
     "U+1D1AC", "U+1D1AD", "U+1D242", "U+1D243", "U+1D244", "U+1DA00", "U+1DA01", "U+1DA02",
     "U+1DA03", "U+1DA04", "U+1DA05", "U+1DA06", "U+1DA07", "U+1DA08", "U+1DA09", "U+1DA0A",
     "U+1DA0B", "U+1DA0C", "U+1DA0D", "U+1DA0E", "U+1DA0F", "U+1DA10", "U+1DA11", "U+1DA12",
     "U+1DA13", "U+1DA14", "U+1DA15", "U+1DA16", "U+1DA17", "U+1DA18", "U+1DA19", "U+1DA1A",
     "U+1DA1B", "U+1DA1C", "U+1DA1D", "U+1DA1E", "U+1DA1F", "U+1DA20", "U+1DA21", "U+1DA22",
     "U+1DA23", "U+1DA24", "U+1DA25", "U+1DA26", "U+1DA27", "U+1DA28", "U+1DA29", "U+1DA2A",
     "U+1DA2B", "U+1DA2C", "U+1DA2D", "U+1DA2E", "U+1DA2F", "U+1DA30", "U+1DA31", "U+1DA32",
     "U+1DA33", "U+1DA34", "U+1DA35", "U+1DA36", "U+1DA3B", "U+1DA3C", "U+1DA3D", "U+1DA3E",
     "U+1DA3F", "U+1DA40", "U+1DA41", "U+1DA42", "U+1DA43", "U+1DA44", "U+1DA45", "U+1DA46",
     "U+1DA47", "U+1DA48", "U+1DA49", "U+1DA4A", "U+1DA4B", "U+1DA4C", "U+1DA4D", "U+1DA4E",
     "U+1DA4F", "U+1DA50", "U+1DA51", "U+1DA52", "U+1DA53", "U+1DA54", "U+1DA55", "U+1DA56",
     "U+1DA57", "U+1DA58", "U+1DA59", "U+1DA5A", "U+1DA5B", "U+1DA5C", "U+1DA5D", "U+1DA5E",
     "U+1DA5F", "U+1DA60", "U+1DA61", "U+1DA62", "U+1DA63", "U+1DA64", "U+1DA65", "U+1DA66",
     "U+1DA67", "U+1DA68", "U+1DA69", "U+1DA6A", "U+1DA6B", "U+1DA6C", "U+1DA75", "U+1DA84",
     "U+1DA9B", "U+1DA9C", "U+1DA9D", "U+1DA9E", "U+1DA9F", "U+1DAA1", "U+1DAA2", "U+1DAA3",
     "U+1DAA4", "U+1DAA5", "U+1DAA6", "U+1DAA7", "U+1DAA8", "U+1DAA9", "U+1DAAA", "U+1DAAB",
     "U+1DAAC", "U+1DAAD", "U+1DAAE", "U+1DAAF", "U+1E000", "U+1E001", "U+1E002", "U+1E003",
     "U+1E004", "U+1E005", "U+1E006", "U+1E008", "U+1E009", "U+1E00A", "U+1E00B", "U+1E00C",
     "U+1E00D", "U+1E00E", "U+1E00F", "U+1E010", "U+1E011", "U+1E012", "U+1E013", "U+1E014",
     "U+1E015", "U+1E016", "U+1E017", "U+1E018", "U+1E01B", "U+1E01C", "U+1E01D", "U+1E01E",
     "U+1E01F", "U+1E020", "U+1E021", "U+1E023", "U+1E024", "U+1E026", "U+1E027", "U+1E028",
     "U+1E029", "U+1E02A", "U+1E130", "U+1E131", "U+1E132", "U+1E133", "U+1E134", "U+1E135",
     "U+1E136", "U+1E137", "U+1E138", "U+1E139", "U+1E13A", "U+1E13B", "U+1E13C", "U+1E13D",
     "U+1E2AE", "U+1E2EC", "U+1E2ED", "U+1E2EE", "U+1E2EF", "U+1E8D0", "U+1E8D1", "U+1E8D2",
     "U+1E8D3", "U+1E8D4", "U+1E8D5", "U+1E8D6", "U+1E944", "U+1E945", "U+1E946", "U+1E947",
     "U+1E948", "U+1E949", "U+1E94A", "U+1E94B", "U+1F3FB", "U+1F3FC", "U+1F3FD", "U+1F3FE",
     "U+1F3FF", "U+E0001", "U+E0020", "U+E0021", "U+E0022", "U+E0023", "U+E0024", "U+E0025",
     "U+E0026", "U+E0027", "U+E0028", "U+E0029", "U+E002A", "U+E002B", "U+E002C", "U+E002D",
     "U+E002E", "U+E002F", "U+E0030", "U+E0031", "U+E0032", "U+E0033", "U+E0034", "U+E0035",
     "U+E0036", "U+E0037", "U+E0038", "U+E0039", "U+E003A", "U+E003B", "U+E003C", "U+E003D",
     "U+E003E", "U+E003F", "U+E0040", "U+E0041", "U+E0042", "U+E0043", "U+E0044", "U+E0045",
     "U+E0046", "U+E0047", "U+E0048", "U+E0049", "U+E004A", "U+E004B", "U+E004C", "U+E004D",
     "U+E004E", "U+E004F", "U+E0050", "U+E0051", "U+E0052", "U+E0053", "U+E0054", "U+E0055",
     "U+E0056", "U+E0057", "U+E0058", "U+E0059", "U+E005A", "U+E005B", "U+E005C", "U+E005D",
     "U+E005E", "U+E005F", "U+E0060", "U+E0061", "U+E0062", "U+E0063", "U+E0064", "U+E0065",
     "U+E0066", "U+E0067", "U+E0068", "U+E0069", "U+E006A", "U+E006B", "U+E006C", "U+E006D",
     "U+E006E", "U+E006F", "U+E0070", "U+E0071", "U+E0072", "U+E0073", "U+E0074", "U+E0075",
     "U+E0076", "U+E0077", "U+E0078", "U+E0079", "U+E007A", "U+E007B", "U+E007C", "U+E007D",
     "U+E007E", "U+E007F", "U+E0100", "U+E0101", "U+E0102", "U+E0103", "U+E0104", "U+E0105",
     "U+E0106", "U+E0107", "U+E0108", "U+E0109", "U+E010A", "U+E010B", "U+E010C", "U+E010D",
     "U+E010E", "U+E010F", "U+E0110", "U+E0111", "U+E0112", "U+E0113", "U+E0114", "U+E0115",
     "U+E0116", "U+E0117", "U+E0118", "U+E0119", "U+E011A", "U+E011B", "U+E011C", "U+E011D",
     "U+E011E", "U+E011F", "U+E0120", "U+E0121", "U+E0122", "U+E0123", "U+E0124", "U+E0125",
     "U+E0126", "U+E0127", "U+E0128", "U+E0129", "U+E012A", "U+E012B", "U+E012C", "U+E012D",
     "U+E012E", "U+E012F", "U+E0130", "U+E0131", "U+E0132", "U+E0133", "U+E0134", "U+E0135",
     "U+E0136", "U+E0137", "U+E0138", "U+E0139", "U+E013A", "U+E013B", "U+E013C", "U+E013D",
     "U+E013E", "U+E013F", "U+E0140", "U+E0141", "U+E0142", "U+E0143", "U+E0144", "U+E0145",
     "U+E0146", "U+E0147", "U+E0148", "U+E0149", "U+E014A", "U+E014B", "U+E014C", "U+E014D",
     "U+E014E", "U+E014F", "U+E0150", "U+E0151", "U+E0152", "U+E0153", "U+E0154", "U+E0155",
     "U+E0156", "U+E0157", "U+E0158", "U+E0159", "U+E015A", "U+E015B", "U+E015C", "U+E015D",
     "U+E015E", "U+E015F", "U+E0160", "U+E0161", "U+E0162", "U+E0163", "U+E0164", "U+E0165",
     "U+E0166", "U+E0167", "U+E0168", "U+E0169", "U+E016A", "U+E016B", "U+E016C", "U+E016D",
     "U+E016E", "U+E016F", "U+E0170", "U+E0171", "U+E0172", "U+E0173", "U+E0174", "U+E0175",
     "U+E0176", "U+E0177", "U+E0178", "U+E0179", "U+E017A", "U+E017B", "U+E017C", "U+E017D",
     "U+E017E", "U+E017F", "U+E0180", "U+E0181", "U+E0182", "U+E0183", "U+E0184", "U+E0185",
     "U+E0186", "U+E0187", "U+E0188", "U+E0189", "U+E018A", "U+E018B", "U+E018C", "U+E018D",
     "U+E018E", "U+E018F", "U+E0190", "U+E0191", "U+E0192", "U+E0193", "U+E0194", "U+E0195",
     "U+E0196", "U+E0197", "U+E0198", "U+E0199", "U+E019A", "U+E019B", "U+E019C", "U+E019D",
     "U+E019E", "U+E019F", "U+E01A0", "U+E01A1", "U+E01A2", "U+E01A3", "U+E01A4", "U+E01A5",
     "U+E01A6", "U+E01A7", "U+E01A8", "U+E01A9", "U+E01AA", "U+E01AB", "U+E01AC", "U+E01AD",
     "U+E01AE", "U+E01AF", "U+E01B0", "U+E01B1", "U+E01B2", "U+E01B3", "U+E01B4", "U+E01B5",
     "U+E01B6", "U+E01B7", "U+E01B8", "U+E01B9", "U+E01BA", "U+E01BB", "U+E01BC", "U+E01BD",
     "U+E01BE", "U+E01BF", "U+E01C0", "U+E01C1", "U+E01C2", "U+E01C3", "U+E01C4", "U+E01C5",
     "U+E01C6", "U+E01C7", "U+E01C8", "U+E01C9", "U+E01CA", "U+E01CB", "U+E01CC", "U+E01CD",
     "U+E01CE", "U+E01CF", "U+E01D0", "U+E01D1", "U+E01D2", "U+E01D3", "U+E01D4", "U+E01D5",
     "U+E01D6", "U+E01D7", "U+E01D8", "U+E01D9", "U+E01DA", "U+E01DB", "U+E01DC", "U+E01DD",
     "U+E01DE", "U+E01DF", "U+E01E0", "U+E01E1", "U+E01E2", "U+E01E3", "U+E01E4", "U+E01E5",
     "U+E01E6", "U+E01E7", "U+E01E8", "U+E01E9", "U+E01EA", "U+E01EB", "U+E01EC", "U+E01ED",
     "U+E01EE", "U+E01EF"}

\* the cased characters among the others (Cased and not Case_Ignorable)
CasedChars ==
    {"A", "B", "C", "D", "E", "F", "G", "H", "I", "J", "K", "L", "M", "N", "O", "P", "Q", "R",
     "S", "T", "U", "V", "W", "X", "Y", "Z", "a", "b", "c", "d", "e", "f", "g", "h", "i", "j",
     "k", "l", "m", "n", "o", "p", "q", "r", "s", "t", "u", "v", "w", "x", "y", "z", "U+00AA",
     "U+00B5", "U+00BA", "U+00C0", "U+00C1", "U+00C2", "U+00C3", "U+00C4", "U+00C5", "U+00C6",
     "U+00C7", "U+00C8", "U+00C9", "U+00CA", "U+00CB", "U+00CC", "U+00CD", "U+00CE", "U+00CF",
     "U+00D0", "U+00D1", "U+00D2", "U+00D3", "U+00D4", "U+00D5", "U+00D6", "U+00D8", "U+00D9",
     "U+00DA", "U+00DB", "U+00DC", "U+00DD", "U+00DE", "U+00DF", "U+00E0", "U+00E1", "U+00E2",
     "U+00E3", "U+00E4", "U+00E5", "U+00E6", "U+00E7", "U+00E8", "U+00E9", "U+00EA", "U+00EB",
     "U+00EC", "U+00ED", "U+00EE", "U+00EF", "U+00F0", "U+00F1", "U+00F2", "U+00F3", "U+00F4",
     "U+00F5", "U+00F6", "U+00F8", "U+00F9", "U+00FA", "U+00FB", "U+00FC", "U+00FD", "U+00FE",
     "U+00FF", "U+0100", "U+0101", "U+0102", "U+0103", "U+0104", "U+0105", "U+0106", "U+0107",
     "U+0108", "U+0109", "U+010A", "U+010B", "U+010C", "U+010D", "U+010E", "U+010F", "U+0110",
     "U+0111", "U+0112", "U+0113", "U+0114", "U+0115", "U+0116", "U+0117", "U+0118", "U+0119",
     "U+011A", "U+011B", "U+011C", "U+011D", "U+011E", "U+011F", "U+0120", "U+0121", "U+0122",
     "U+0123", "U+0124", "U+0125", "U+0126", "U+0127", "U+0128", "U+0129", "U+012A", "U+012B",
     "U+012C", "U+012D", "U+012E", "U+012F", "U+0130", "U+0131", "U+0132", "U+0133", "U+0134",
     "U+0135", "U+0136", "U+0137", "U+0138", "U+0139", "U+013A", "U+013B", "U+013C", "U+013D",
     "U+013E", "U+013F", "U+0140", "U+0141", "U+0142", "U+0143", "U+0144", "U+0145", "U+0146",
     "U+0147", "U+0148", "U+0149", "U+014A", "U+014B", "U+014C", "U+014D", "U+014E", "U+014F",
     "U+0150", "U+0151", "U+0152", "U+0153", "U+0154", "U+0155", "U+0156", "U+0157", "U+0158",
     "U+0159", "U+015A", "U+015B", "U+015C", "U+015D", "U+015E", "U+015F", "U+0160", "U+0161",
     "U+0162", "U+0163", "U+0164", "U+0165", "U+0166", "U+0167", "U+0168", "U+0169", "U+016A",
     "U+016B", "U+016C", "U+016D", "U+016E", "U+016F", "U+0170", "U+0171", "U+0172", "U+0173",
     "U+0174", "U+0175", "U+0176", "U+0177", "U+0178", "U+0179", "U+017A", "U+017B", "U+017C",
     "U+017D", "U+017E", "U+017F", "U+0180", "U+0181", "U+0182", "U+0183", "U+0184", "U+0185",
     "U+0186", "U+0187", "U+0188", "U+0189", "U+018A", "U+018B", "U+018C", "U+018D", "U+018E",
     "U+018F", "U+0190", "U+0191", "U+0192", "U+0193", "U+0194", "U+0195", "U+0196", "U+0197",
     "U+0198", "U+0199", "U+019A", "U+019B", "U+019C", "U+019D", "U+019E", "U+019F", "U+01A0",
     "U+01A1", "U+01A2", "U+01A3", "U+01A4", "U+01A5", "U+01A6", "U+01A7", "U+01A8", "U+01A9",
     "U+01AA", "U+01AB", "U+01AC", "U+01AD", "U+01AE", "U+01AF", "U+01B0", "U+01B1", "U+01B2",
     "U+01B3", "U+01B4", "U+01B5", "U+01B6", "U+01B7", "U+01B8", "U+01B9", "U+01BA", "U+01BC",
     "U+01BD", "U+01BE", "U+01BF", "U+01C4", "U+01C5", "U+01C6", "U+01C7", "U+01C8", "U+01C9",
     "U+01CA", "U+01CB", "U+01CC", "U+01CD", "U+01CE", "U+01CF", "U+01D0", "U+01D1", "U+01D2",
     "U+01D3", "U+01D4", "U+01D5", "U+01D6", "U+01D7", "U+01D8", "U+01D9", "U+01DA", "U+01DB",
     "U+01DC", "U+01DD", "U+01DE", "U+01DF", "U+01E0", "U+01E1", "U+01E2", "U+01E3", "U+01E4",
     "U+01E5", "U+01E6", "U+01E7", "U+01E8", "U+01E9", "U+01EA", "U+01EB", "U+01EC", "U+01ED",
     "U+01EE", "U+01EF", "U+01F0", "U+01F1", "U+01F2", "U+01F3", "U+01F4", "U+01F5", "U+01F6",
     "U+01F7", "U+01F8", "U+01F9", "U+01FA", "U+01FB", "U+01FC", "U+01FD", "U+01FE", "U+01FF",
     "U+0200", "U+0201", "U+0202", "U+0203", "U+0204", "U+0205", "U+0206", "U+0207", "U+0208",
     "U+0209", "U+020A", "U+020B", "U+020C", "U+020D", "U+020E", "U+020F", "U+0210", "U+0211",
     "U+0212", "U+0213", "U+0214", "U+0215", "U+0216", "U+0217", "U+0218", "U+0219", "U+021A",
     "U+021B", "U+021C", "U+021D", "U+021E", "U+021F", "U+0220", "U+0221", "U+0222", "U+0223",
     "U+0224", "U+0225", "U+0226", "U+0227", "U+0228", "U+0229", "U+022A", "U+022B", "U+022C",
     "U+022D", "U+022E", "U+022F", "U+0230", "U+0231", "U+0232", "U+0233", "U+0234", "U+0235",
     "U+0236", "U+0237", "U+0238", "U+0239", "U+023A", "U+023B", "U+023C", "U+023D", "U+023E",
     "U+023F", "U+0240", "U+0241", "U+0242", "U+0243", "U+0244", "U+0245", "U+0246", "U+0247",
     "U+0248", "U+0249", "U+024A", "U+024B", "U+024C", "U+024D", "U+024E", "U+024F", "U+0250",
     "U+0251", "U+0252", "U+0253", "U+0254", "U+0255", "U+0256", "U+0257", "U+0258", "U+0259",
     "U+025A", "U+025B", "U+025C", "U+025D", "U+025E", "U+025F", "U+0260", "U+0261", "U+0262",
     "U+0263", "U+0264", "U+0265", "U+0266", "U+0267", "U+0268", "U+0269", "U+026A", "U+026B",
     "U+026C", "U+026D", "U+026E", "U+026F", "U+0270", "U+0271", "U+0272", "U+0273", "U+0274",
     "U+0275", "U+0276", "U+0277", "U+0278", "U+0279", "U+027A", "U+027B", "U+027C", "U+027D",
     "U+027E", "U+027F", "U+0280", "U+0281", "U+0282", "U+0283", "U+0284", "U+0285", "U+0286",
     "U+0287", "U+0288", "U+0289", "U+028A", "U+028B", "U+028C", "U+028D", "U+028E", "U+028F",
     "U+0290", "U+0291", "U+0292", "U+0293", "U+0295", "U+0296", "U+0297", "U+0298", "U+0299",
     "U+029A", "U+029B", "U+029C", "U+029D", "U+029E", "U+029F", "U+02A0", "U+02A1", "U+02A2",
     "U+02A3", "U+02A4", "U+02A5", "U+02A6", "U+02A7", "U+02A8", "U+02A9", "U+02AA", "U+02AB",
     "U+02AC", "U+02AD", "U+02AE", "U+02AF", "U+0370", "U+0371", "U+0372", "U+0373", "U+0376",
     "U+0377", "U+037B", "U+037C", "U+037D", "U+037F", "U+0386", "U+0388", "U+0389", "U+038A",
     "U+038C", "U+038E", "U+038F", "U+0390", "U+0391", "U+0392", "U+0393", "U+0394", "U+0395",
     "U+0396", "U+0397", "U+0398", "U+0399", "U+039A", "U+039B", "U+039C", "U+039D", "U+039E",
     "U+039F", "U+03A0", "U+03A1", "U+03A3", "U+03A4", "U+03A5", "U+03A6", "U+03A7", "U+03A8",
     "U+03A9", "U+03AA", "U+03AB", "U+03AC", "U+03AD", "U+03AE", "U+03AF", "U+03B0", "U+03B1",
     "U+03B2", "U+03B3", "U+03B4", "U+03B5", "U+03B6", "U+03B7", "U+03B8", "U+03B9", "U+03BA",
     "U+03BB", "U+03BC", "U+03BD", "U+03BE", "U+03BF", "U+03C0", "U+03C1", "U+03C2", "U+03C3",
     "U+03C4", "U+03C5", "U+03C6", "U+03C7", "U+03C8", "U+03C9", "U+03CA", "U+03CB", "U+03CC",
     "U+03CD", "U+03CE", "U+03CF", "U+03D0", "U+03D1", "U+03D2", "U+03D3", "U+03D4", "U+03D5",
     "U+03D6", "U+03D7", "U+03D8", "U+03D9", "U+03DA", "U+03DB", "U+03DC", "U+03DD", "U+03DE",
     "U+03DF", "U+03E0", "U+03E1", "U+03E2", "U+03E3", "U+03E4", "U+03E5", "U+03E6", "U+03E7",
     "U+03E8", "U+03E9", "U+03EA", "U+03EB", "U+03EC", "U+03ED", "U+03EE", "U+03EF", "U+03F0",
     "U+03F1", "U+03F2", "U+03F3", "U+03F4", "U+03F5", "U+03F7", "U+03F8", "U+03F9", "U+03FA",
     "U+03FB", "U+03FC", "U+03FD", "U+03FE", "U+03FF", "U+0400", "U+0401", "U+0402", "U+0403",
     "U+0404", "U+0405", "U+0406", "U+0407", "U+0408", "U+0409", "U+040A", "U+040B", "U+040C",
     "U+040D", "U+040E", "U+040F", "U+0410", "U+0411", "U+0412", "U+0413", "U+0414", "U+0415",
     "U+0416", "U+0417", "U+0418", "U+0419", "U+041A", "U+041B", "U+041C", "U+041D", "U+041E",
     "U+041F", "U+0420", "U+0421", "U+0422", "U+0423", "U+0424", "U+0425", "U+0426", "U+0427",
     "U+0428", "U+0429", "U+042A", "U+042B", "U+042C", "U+042D", "U+042E", "U+042F", "U+0430",
     "U+0431", "U+0432", "U+0433", "U+0434", "U+0435", "U+0436", "U+0437", "U+0438", "U+0439",
     "U+043A", "U+043B", "U+043C", "U+043D", "U+043E", "U+043F", "U+0440", "U+0441", "U+0442",
     "U+0443", "U+0444", "U+0445", "U+0446", "U+0447", "U+0448", "U+0449", "U+044A", "U+044B",
     "U+044C", "U+044D", "U+044E", "U+044F", "U+0450", "U+0451", "U+0452", "U+0453", "U+0454",
     "U+0455", "U+0456", "U+0457", "U+0458", "U+0459", "U+045A", "U+045B", "U+045C", "U+045D",
     "U+045E", "U+045F", "U+0460", "U+0461", "U+0462", "U+0463", "U+0464", "U+0465", "U+0466",
     "U+0467", "U+0468", "U+0469", "U+046A", "U+046B", "U+046C", "U+046D", "U+046E", "U+046F",
     "U+0470", "U+0471", "U+0472", "U+0473", "U+0474", "U+0475", "U+0476", "U+0477", "U+0478",
     "U+0479", "U+047A", "U+047B", "U+047C", "U+047D", "U+047E", "U+047F", "U+0480", "U+0481",
     "U+048A", "U+048B", "U+048C", "U+048D", "U+048E", "U+048F", "U+0490", "U+0491", "U+0492",
     "U+0493", "U+0494", "U+0495", "U+0496", "U+0497", "U+0498", "U+0499", "U+049A", "U+049B",
     "U+049C", "U+049D", "U+049E", "U+049F", "U+04A0", "U+04A1", "U+04A2", "U+04A3", "U+04A4",
     "U+04A5", "U+04A6", "U+04A7", "U+04A8", "U+04A9", "U+04AA", "U+04AB", "U+04AC", "U+04AD",
     "U+04AE", "U+04AF", "U+04B0", "U+04B1", "U+04B2", "U+04B3", "U+04B4", "U+04B5", "U+04B6",
     "U+04B7", "U+04B8", "U+04B9", "U+04BA", "U+04BB", "U+04BC", "U+04BD", "U+04BE", "U+04BF",
     "U+04C0", "U+04C1", "U+04C2", "U+04C3", "U+04C4", "U+04C5", "U+04C6", "U+04C7", "U+04C8",
     "U+04C9", "U+04CA", "U+04CB", "U+04CC", "U+04CD", "U+04CE", "U+04CF", "U+04D0", "U+04D1",
     "U+04D2", "U+04D3", "U+04D4", "U+04D5", "U+04D6", "U+04D7", "U+04D8", "U+04D9", "U+04DA",
     "U+04DB", "U+04DC", "U+04DD", "U+04DE", "U+04DF", "U+04E0", "U+04E1", "U+04E2", "U+04E3",
     "U+04E4", "U+04E5", "U+04E6", "U+04E7", "U+04E8", "U+04E9", "U+04EA", "U+04EB", "U+04EC",
     "U+04ED", "U+04EE", "U+04EF", "U+04F0", "U+04F1", "U+04F2", "U+04F3", "U+04F4", "U+04F5",
     "U+04F6", "U+04F7", "U+04F8", "U+04F9", "U+04FA", "U+04FB", "U+04FC", "U+04FD", "U+04FE",
     "U+04FF", "U+0500", "U+0501", "U+0502", "U+0503", "U+0504", "U+0505", "U+0506", "U+0507",
     "U+0508", "U+0509", "U+050A", "U+050B", "U+050C", "U+050D", "U+050E", "U+050F", "U+0510",
     "U+0511", "U+0512", "U+0513", "U+0514", "U+0515", "U+0516", "U+0517", "U+0518", "U+0519",
     "U+051A", "U+051B", "U+051C", "U+051D", "U+051E", "U+051F", "U+0520", "U+0521", "U+0522",
     "U+0523", "U+0524", "U+0525", "U+0526", "U+0527", "U+0528", "U+0529", "U+052A", "U+052B",
     "U+052C", "U+052D", "U+052E", "U+052F", "U+0531", "U+0532", "U+0533", "U+0534", "U+0535",
     "U+0536", "U+0537", "U+0538", "U+0539", "U+053A", "U+053B", "U+053C", "U+053D", "U+053E",
     "U+053F", "U+0540", "U+0541", "U+0542", "U+0543", "U+0544", "U+0545", "U+0546", "U+0547",
     "U+0548", "U+0549", "U+054A", "U+054B", "U+054C", "U+054D", "U+054E", "U+054F", "U+0550",
     "U+0551", "U+0552", "U+0553", "U+0554", "U+0555", "U+0556", "U+0560", "U+0561", "U+0562",
     "U+0563", "U+0564", "U+0565", "U+0566", "U+0567", "U+0568", "U+0569", "U+056A", "U+056B",
     "U+056C", "U+056D", "U+056E", "U+056F", "U+0570", "U+0571", "U+0572", "U+0573", "U+0574",
     "U+0575", "U+0576", "U+0577", "U+0578", "U+0579", "U+057A", "U+057B", "U+057C", "U+057D",
     "U+057E", "U+057F", "U+0580", "U+0581", "U+0582", "U+0583", "U+0584", "U+0585", "U+0586",
     "U+0587", "U+0588", "U+10A0", "U+10A1", "U+10A2", "U+10A3", "U+10A4", "U+10A5", "U+10A6",
     "U+10A7", "U+10A8", "U+10A9", "U+10AA", "U+10AB", "U+10AC", "U+10AD", "U+10AE", "U+10AF",
     "U+10B0", "U+10B1", "U+10B2", "U+10B3", "U+10B4", "U+10B5", "U+10B6", "U+10B7", "U+10B8",
     "U+10B9", "U+10BA", "U+10BB", "U+10BC", "U+10BD", "U+10BE", "U+10BF", "U+10C0", "U+10C1",
     "U+10C2", "U+10C3", "U+10C4", "U+10C5", "U+10C7", "U+10CD", "U+10D0", "U+10D1", "U+10D2",
     "U+10D3", "U+10D4", "U+10D5", "U+10D6", "U+10D7", "U+10D8", "U+10D9", "U+10DA", "U+10DB",
     "U+10DC", "U+10DD", "U+10DE", "U+10DF", "U+10E0", "U+10E1", "U+10E2", "U+10E3", "U+10E4",
     "U+10E5", "U+10E6", "U+10E7", "U+10E8", "U+10E9", "U+10EA", "U+10EB", "U+10EC", "U+10ED",
     "U+10EE", "U+10EF", "U+10F0", "U+10F1", "U+10F2", "U+10F3", "U+10F4", "U+10F5", "U+10F6",
     "U+10F7", "U+10F8", "U+10F9", "U+10FA", "U+10FD", "U+10FE", "U+10FF", "U+13A0", "U+13A1",
     "U+13A2", "U+13A3", "U+13A4", "U+13A5", "U+13A6", "U+13A7", "U+13A8", "U+13A9", "U+13AA",
     "U+13AB", "U+13AC", "U+13AD", "U+13AE", "U+13AF", "U+13B0", "U+13B1", "U+13B2", "U+13B3",
     "U+13B4", "U+13B5", "U+13B6", "U+13B7", "U+13B8", "U+13B9", "U+13BA", "U+13BB", "U+13BC",
     "U+13BD", "U+13BE", "U+13BF", "U+13C0", "U+13C1", "U+13C2", "U+13C3", "U+13C4", "U+13C5",
     "U+13C6", "U+13C7", "U+13C8", "U+13C9", "U+13CA", "U+13CB", "U+13CC", "U+13CD", "U+13CE",
     "U+13CF", "U+13D0", "U+13D1", "U+13D2", "U+13D3", "U+13D4", "U+13D5", "U+13D6", "U+13D7",
     "U+13D8", "U+13D9", "U+13DA", "U+13DB", "U+13DC", "U+13DD", "U+13DE", "U+13DF", "U+13E0",
     "U+13E1", "U+13E2", "U+13E3", "U+13E4", "U+13E5", "U+13E6", "U+13E7", "U+13E8", "U+13E9",
     "U+13EA", "U+13EB", "U+13EC", "U+13ED", "U+13EE", "U+13EF", "U+13F0", "U+13F1", "U+13F2",
     "U+13F3", "U+13F4", "U+13F5", "U+13F8", "U+13F9", "U+13FA", "U+13FB", "U+13FC", "U+13FD",
     "U+1C80", "U+1C81", "U+1C82", "U+1C83", "U+1C84", "U+1C85", "U+1C86", "U+1C87", "U+1C88",
     "U+1C90", "U+1C91", "U+1C92", "U+1C93", "U+1C94", "U+1C95", "U+1C96", "U+1C97", "U+1C98",
     "U+1C99", "U+1C9A", "U+1C9B", "U+1C9C", "U+1C9D", "U+1C9E", "U+1C9F", "U+1CA0", "U+1CA1",
     "U+1CA2", "U+1CA3", "U+1CA4", "U+1CA5", "U+1CA6", "U+1CA7", "U+1CA8", "U+1CA9", "U+1CAA",
     "U+1CAB", "U+1CAC", "U+1CAD", "U+1CAE", "U+1CAF", "U+1CB0", "U+1CB1", "U+1CB2", "U+1CB3",
     "U+1CB4", "U+1CB5", "U+1CB6", "U+1CB7", "U+1CB8", "U+1CB9", "U+1CBA", "U+1CBD", "U+1CBE",
     "U+1CBF", "U+1D00", "U+1D01", "U+1D02", "U+1D03", "U+1D04", "U+1D05", "U+1D06", "U+1D07",
     "U+1D08", "U+1D09", "U+1D0A", "U+1D0B", "U+1D0C", "U+1D0D", "U+1D0E", "U+1D0F", "U+1D10",
     "U+1D11", "U+1D12", "U+1D13", "U+1D14", "U+1D15", "U+1D16", "U+1D17", "U+1D18", "U+1D19",
     "U+1D1A", "U+1D1B", "U+1D1C", "U+1D1D", "U+1D1E", "U+1D1F", "U+1D20", "U+1D21", "U+1D22",
     "U+1D23", "U+1D24", "U+1D25", "U+1D26", "U+1D27", "U+1D28", "U+1D29", "U+1D2A", "U+1D2B",
     "U+1D6B", "U+1D6C", "U+1D6D", "U+1D6E", "U+1D6F", "U+1D70", "U+1D71", "U+1D72", "U+1D73",
     "U+1D74", "U+1D75", "U+1D76", "U+1D77", "U+1D79", "U+1D7A", "U+1D7B", "U+1D7C", "U+1D7D",
     "U+1D7E", "U+1D7F", "U+1D80", "U+1D81", "U+1D82", "U+1D83", "U+1D84", "U+1D85", "U+1D86",
     "U+1D87", "U+1D88", "U+1D89", "U+1D8A", "U+1D8B", "U+1D8C", "U+1D8D", "U+1D8E", "U+1D8F",
     "U+1D90", "U+1D91", "U+1D92", "U+1D93", "U+1D94", "U+1D95", "U+1D96", "U+1D97", "U+1D98",
     "U+1D99", "U+1D9A", "U+1E00", "U+1E01", "U+1E02", "U+1E03", "U+1E04", "U+1E05", "U+1E06",
     "U+1E07", "U+1E08", "U+1E09", "U+1E0A", "U+1E0B", "U+1E0C", "U+1E0D", "U+1E0E", "U+1E0F",
     "U+1E10", "U+1E11", "U+1E12", "U+1E13", "U+1E14", "U+1E15", "U+1E16", "U+1E17", "U+1E18",
     "U+1E19", "U+1E1A", "U+1E1B", "U+1E1C", "U+1E1D", "U+1E1E", "U+1E1F", "U+1E20", "U+1E21",
     "U+1E22", "U+1E23", "U+1E24", "U+1E25", "U+1E26", "U+1E27", "U+1E28", "U+1E29", "U+1E2A",
     "U+1E2B", "U+1E2C", "U+1E2D", "U+1E2E", "U+1E2F", "U+1E30", "U+1E31", "U+1E32", "U+1E33",
     "U+1E34", "U+1E35", "U+1E36", "U+1E37", "U+1E38", "U+1E39", "U+1E3A", "U+1E3B", "U+1E3C",
     "U+1E3D", "U+1E3E", "U+1E3F", "U+1E40", "U+1E41", "U+1E42", "U+1E43", "U+1E44", "U+1E45",
     "U+1E46", "U+1E47", "U+1E48", "U+1E49", "U+1E4A", "U+1E4B", "U+1E4C", "U+1E4D", "U+1E4E",
     "U+1E4F", "U+1E50", "U+1E51", "U+1E52", "U+1E53", "U+1E54", "U+1E55", "U+1E56", "U+1E57",
     "U+1E58", "U+1E59", "U+1E5A", "U+1E5B", "U+1E5C", "U+1E5D", "U+1E5E", "U+1E5F", "U+1E60",
     "U+1E61", "U+1E62", "U+1E63", "U+1E64", "U+1E65", "U+1E66", "U+1E67", "U+1E68", "U+1E69",
     "U+1E6A", "U+1E6B", "U+1E6C", "U+1E6D", "U+1E6E", "U+1E6F", "U+1E70", "U+1E71", "U+1E72",
     "U+1E73", "U+1E74", "U+1E75", "U+1E76", "U+1E77", "U+1E78", "U+1E79", "U+1E7A", "U+1E7B",
     "U+1E7C", "U+1E7D", "U+1E7E", "U+1E7F", "U+1E80", "U+1E81", "U+1E82", "U+1E83", "U+1E84",
     "U+1E85", "U+1E86", "U+1E87", "U+1E88", "U+1E89", "U+1E8A", "U+1E8B", "U+1E8C", "U+1E8D",
     "U+1E8E", "U+1E8F", "U+1E90", "U+1E91", "U+1E92", "U+1E93", "U+1E94", "U+1E95", "U+1E96",
     "U+1E97", "U+1E98", "U+1E99", "U+1E9A", "U+1E9B", "U+1E9C", "U+1E9D", "U+1E9E", "U+1E9F",
     "U+1EA0", "U+1EA1", "U+1EA2", "U+1EA3", "U+1EA4", "U+1EA5", "U+1EA6", "U+1EA7", "U+1EA8",
     "U+1EA9", "U+1EAA", "U+1EAB", "U+1EAC", "U+1EAD", "U+1EAE", "U+1EAF", "U+1EB0", "U+1EB1",
     "U+1EB2", "U+1EB3", "U+1EB4", "U+1EB5", "U+1EB6", "U+1EB7", "U+1EB8", "U+1EB9", "U+1EBA",
     "U+1EBB", "U+1EBC", "U+1EBD", "U+1EBE", "U+1EBF", "U+1EC0", "U+1EC1", "U+1EC2", "U+1EC3",
     "U+1EC4", "U+1EC5", "U+1EC6", "U+1EC7", "U+1EC8", "U+1EC9", "U+1ECA", "U+1ECB", "U+1ECC",
     "U+1ECD", "U+1ECE", "U+1ECF", "U+1ED0", "U+1ED1", "U+1ED2", "U+1ED3", "U+1ED4", "U+1ED5",
     "U+1ED6", "U+1ED7", "U+1ED8", "U+1ED9", "U+1EDA", "U+1EDB", "U+1EDC", "U+1EDD", "U+1EDE",
     "U+1EDF", "U+1EE0", "U+1EE1", "U+1EE2", "U+1EE3", "U+1EE4", "U+1EE5", "U+1EE6", "U+1EE7",
     "U+1EE8", "U+1EE9", "U+1EEA", "U+1EEB", "U+1EEC", "U+1EED", "U+1EEE", "U+1EEF", "U+1EF0",
     "U+1EF1", "U+1EF2", "U+1EF3", "U+1EF4", "U+1EF5", "U+1EF6", "U+1EF7", "U+1EF8", "U+1EF9",
     "U+1EFA", "U+1EFB", "U+1EFC", "U+1EFD", "U+1EFE", "U+1EFF", "U+1F00", "U+1F01", "U+1F02",
     "U+1F03", "U+1F04", "U+1F05", "U+1F06", "U+1F07", "U+1F08", "U+1F09", "U+1F0A", "U+1F0B",
     "U+1F0C", "U+1F0D", "U+1F0E", "U+1F0F", "U+1F10", "U+1F11", "U+1F12", "U+1F13", "U+1F14",
     "U+1F15", "U+1F18", "U+1F19", "U+1F1A", "U+1F1B", "U+1F1C", "U+1F1D", "U+1F20", "U+1F21",
     "U+1F22", "U+1F23", "U+1F24", "U+1F25", "U+1F26", "U+1F27", "U+1F28", "U+1F29", "U+1F2A",
     "U+1F2B", "U+1F2C", "U+1F2D", "U+1F2E", "U+1F2F", "U+1F30", "U+1F31", "U+1F32", "U+1F33",
     "U+1F34", "U+1F35", "U+1F36", "U+1F37", "U+1F38", "U+1F39", "U+1F3A", "U+1F3B", "U+1F3C",
     "U+1F3D", "U+1F3E", "U+1F3F", "U+1F40", "U+1F41", "U+1F42", "U+1F43", "U+1F44", "U+1F45",
     "U+1F48", "U+1F49", "U+1F4A", "U+1F4B", "U+1F4C", "U+1F4D", "U+1F50", "U+1F51", "U+1F52",
     "U+1F53", "U+1F54", "U+1F55", "U+1F56", "U+1F57", "U+1F59", "U+1F5B", "U+1F5D", "U+1F5F",
     "U+1F60", "U+1F61", "U+1F62", "U+1F63", "U+1F64", "U+1F65", "U+1F66", "U+1F67", "U+1F68",
     "U+1F69", "U+1F6A", "U+1F6B", "U+1F6C", "U+1F6D", "U+1F6E", "U+1F6F", "U+1F70", "U+1F71",
     "U+1F72", "U+1F73", "U+1F74", "U+1F75", "U+1F76", "U+1F77", "U+1F78", "U+1F79", "U+1F7A",
     "U+1F7B", "U+1F7C", "U+1F7D", "U+1F80", "U+1F81", "U+1F82", "U+1F83", "U+1F84", "U+1F85",
     "U+1F86", "U+1F87", "U+1F88", "U+1F89", "U+1F8A", "U+1F8B", "U+1F8C", "U+1F8D", "U+1F8E",
     "U+1F8F", "U+1F90", "U+1F91", "U+1F92", "U+1F93", "U+1F94", "U+1F95", "U+1F96", "U+1F97",
     "U+1F98", "U+1F99", "U+1F9A", "U+1F9B", "U+1F9C", "U+1F9D", "U+1F9E", "U+1F9F", "U+1FA0",
     "U+1FA1", "U+1FA2", "U+1FA3", "U+1FA4", "U+1FA5", "U+1FA6", "U+1FA7", "U+1FA8", "U+1FA9",
     "U+1FAA", "U+1FAB", "U+1FAC", "U+1FAD", "U+1FAE", "U+1FAF", "U+1FB0", "U+1FB1", "U+1FB2",
     "U+1FB3", "U+1FB4", "U+1FB6", "U+1FB7", "U+1FB8", "U+1FB9", "U+1FBA", "U+1FBB", "U+1FBC",
     "U+1FBE", "U+1FC2", "U+1FC3", "U+1FC4", "U+1FC6", "U+1FC7", "U+1FC8", "U+1FC9", "U+1FCA",
     "U+1FCB", "U+1FCC", "U+1FD0", "U+1FD1", "U+1FD2", "U+1FD3", "U+1FD6", "U+1FD7", "U+1FD8",
     "U+1FD9", "U+1FDA", "U+1FDB", "U+1FE0", "U+1FE1", "U+1FE2", "U+1FE3", "U+1FE4", "U+1FE5",
     "U+1FE6", "U+1FE7", "U+1FE8", "U+1FE9", "U+1FEA", "U+1FEB", "U+1FEC", "U+1FF2", "U+1FF3",
     "U+1FF4", "U+1FF6", "U+1FF7", "U+1FF8", "U+1FF9", "U+1FFA", "U+1FFB", "U+1FFC", "U+2102",
     "U+2107", "U+210A", "U+210B", "U+210C", "U+210D", "U+210E", "U+210F", "U+2110", "U+2111",
     "U+2112", "U+2113", "U+2115", "U+2119", "U+211A", "U+211B", "U+211C", "U+211D", "U+2124",
     "U+2126", "U+2128", "U+212A", "U+212B", "U+212C", "U+212D", "U+212F", "U+2130", "U+2131",
     "U+2132", "U+2133", "U+2134", "U+2139", "U+213C", "U+213D", "U+213E", "U+213F", "U+2145",
     "U+2146", "U+2147", "U+2148", "U+2149", "U+214E", "U+2160", "U+2161", "U+2162", "U+2163",
     "U+2164", "U+2165", "U+2166", "U+2167", "U+2168", "U+2169", "U+216A", "U+216B", "U+216C",
     "U+216D", "U+216E", "U+216F", "U+2170", "U+2171", "U+2172", "U+2173", "U+2174", "U+2175",
     "U+2176", "U+2177", "U+2178", "U+2179", "U+217A", "U+217B", "U+217C", "U+217D", "U+217E",
     "U+217F", "U+2183", "U+2184", "U+24B6", "U+24B7", "U+24B8", "U+24B9", "U+24BA", "U+24BB",
     "U+24BC", "U+24BD", "U+24BE", "U+24BF", "U+24C0", "U+24C1", "U+24C2", "U+24C3", "U+24C4",
     "U+24C5", "U+24C6", "U+24C7", "U+24C8", "U+24C9", "U+24CA", "U+24CB", "U+24CC", "U+24CD",
     "U+24CE", "U+24CF", "U+24D0", "U+24D1", "U+24D2", "U+24D3", "U+24D4", "U+24D5", "U+24D6",
     "U+24D7", "U+24D8", "U+24D9", "U+24DA", "U+24DB", "U+24DC", "U+24DD", "U+24DE", "U+24DF",
     "U+24E0", "U+24E1", "U+24E2", "U+24E3", "U+24E4", "U+24E5", "U+24E6", "U+24E7", "U+24E8",
     "U+24E9", "U+2C00", "U+2C01", "U+2C02", "U+2C03", "U+2C04", "U+2C05", "U+2C06", "U+2C07",
     "U+2C08", "U+2C09", "U+2C0A", "U+2C0B", "U+2C0C", "U+2C0D", "U+2C0E", "U+2C0F", "U+2C10",
     "U+2C11", "U+2C12", "U+2C13", "U+2C14", "U+2C15", "U+2C16", "U+2C17", "U+2C18", "U+2C19",
     "U+2C1A", "U+2C1B", "U+2C1C", "U+2C1D", "U+2C1E", "U+2C1F", "U+2C20", "U+2C21", "U+2C22",
     "U+2C23", "U+2C24", "U+2C25", "U+2C26", "U+2C27", "U+2C28", "U+2C29", "U+2C2A", "U+2C2B",
     "U+2C2C", "U+2C2D", "U+2C2E", "U+2C2F", "U+2C30", "U+2C31", "U+2C32", "U+2C33", "U+2C34",
     "U+2C35", "U+2C36", "U+2C37", "U+2C38", "U+2C39", "U+2C3A", "U+2C3B", "U+2C3C", "U+2C3D",
     "U+2C3E", "U+2C3F", "U+2C40", "U+2C41", "U+2C42", "U+2C43", "U+2C44", "U+2C45", "U+2C46",
     "U+2C47", "U+2C48", "U+2C49", "U+2C4A", "U+2C4B", "U+2C4C", "U+2C4D", "U+2C4E", "U+2C4F",
     "U+2C50", "U+2C51", "U+2C52", "U+2C53", "U+2C54", "U+2C55", "U+2C56", "U+2C57", "U+2C58",
     "U+2C59", "U+2C5A", "U+2C5B", "U+2C5C", "U+2C5D", "U+2C5E", "U+2C5F", "U+2C60", "U+2C61",
     "U+2C62", "U+2C63", "U+2C64", "U+2C65", "U+2C66", "U+2C67", "U+2C68", "U+2C69", "U+2C6A",
     "U+2C6B", "U+2C6C", "U+2C6D", "U+2C6E", "U+2C6F", "U+2C70", "U+2C71", "U+2C72", "U+2C73",
     "U+2C74", "U+2C75", "U+2C76", "U+2C77", "U+2C78", "U+2C79", "U+2C7A", "U+2C7B", "U+2C7E",
     "U+2C7F", "U+2C80", "U+2C81", "U+2C82", "U+2C83", "U+2C84", "U+2C85", "U+2C86", "U+2C87",
     "U+2C88", "U+2C89", "U+2C8A", "U+2C8B", "U+2C8C", "U+2C8D", "U+2C8E", "U+2C8F", "U+2C90",
     "U+2C91", "U+2C92", "U+2C93", "U+2C94", "U+2C95", "U+2C96", "U+2C97", "U+2C98", "U+2C99",
     "U+2C9A", "U+2C9B", "U+2C9C", "U+2C9D", "U+2C9E", "U+2C9F", "U+2CA0", "U+2CA1", "U+2CA2",
     "U+2CA3", "U+2CA4", "U+2CA5", "U+2CA6", "U+2CA7", "U+2CA8", "U+2CA9", "U+2CAA", "U+2CAB",
     "U+2CAC", "U+2CAD", "U+2CAE", "U+2CAF", "U+2CB0", "U+2CB1", "U+2CB2", "U+2CB3", "U+2CB4",
     "U+2CB5", "U+2CB6", "U+2CB7", "U+2CB8", "U+2CB9", "U+2CBA", "U+2CBB", "U+2CBC", "U+2CBD",
     "U+2CBE", "U+2CBF", "U+2CC0", "U+2CC1", "U+2CC2", "U+2CC3", "U+2CC4", "U+2CC5", "U+2CC6",
     "U+2CC7", "U+2CC8", "U+2CC9", "U+2CCA", "U+2CCB", "U+2CCC", "U+2CCD", "U+2CCE", "U+2CCF",
     "U+2CD0", "U+2CD1", "U+2CD2", "U+2CD3", "U+2CD4", "U+2CD5", "U+2CD6", "U+2CD7", "U+2CD8",
     "U+2CD9", "U+2CDA", "U+2CDB", "U+2CDC", "U+2CDD", "U+2CDE", "U+2CDF", "U+2CE0", "U+2CE1",
     "U+2CE2", "U+2CE3", "U+2CE4", "U+2CEB", "U+2CEC", "U+2CED", "U+2CEE", "U+2CF2", "U+2CF3",
     "U+2D00", "U+2D01", "U+2D02", "U+2D03", "U+2D04", "U+2D05", "U+2D06", "U+2D07", "U+2D08",
     "U+2D09", "U+2D0A", "U+2D0B", "U+2D0C", "U+2D0D", "U+2D0E", "U+2D0F", "U+2D10", "U+2D11",
     "U+2D12", "U+2D13", "U+2D14", "U+2D15", "U+2D16", "U+2D17", "U+2D18", "U+2D19", "U+2D1A",
     "U+2D1B", "U+2D1C", "U+2D1D", "U+2D1E", "U+2D1F", "U+2D20", "U+2D21", "U+2D22", "U+2D23",
     "U+2D24", "U+2D25", "U+2D27", "U+2D2D", "U+A640", "U+A641", "U+A642", "U+A643", "U+A644",
     "U+A645", "U+A646", "U+A647", "U+A648", "U+A649", "U+A64A", "U+A64B", "U+A64C", "U+A64D",
     "U+A64E", "U+A64F", "U+A650", "U+A651", "U+A652", "U+A653", "U+A654", "U+A655", "U+A656",
     "U+A657", "U+A658", "U+A659", "U+A65A", "U+A65B", "U+A65C", "U+A65D", "U+A65E", "U+A65F",
     "U+A660", "U+A661", "U+A662", "U+A663", "U+A664", "U+A665", "U+A666", "U+A667", "U+A668",
     "U+A669", "U+A66A", "U+A66B", "U+A66C", "U+A66D", "U+A680", "U+A681", "U+A682", "U+A683",
     "U+A684", "U+A685", "U+A686", "U+A687", "U+A688", "U+A689", "U+A68A", "U+A68B", "U+A68C",
     "U+A68D", "U+A68E", "U+A68F", "U+A690", "U+A691", "U+A692", "U+A693", "U+A694", "U+A695",
     "U+A696", "U+A697", "U+A698", "U+A699", "U+A69A", "U+A69B", "U+A722", "U+A723", "U+A724",
     "U+A725", "U+A726", "U+A727", "U+A728", "U+A729", "U+A72A", "U+A72B", "U+A72C", "U+A72D",
     "U+A72E", "U+A72F", "U+A730", "U+A731", "U+A732", "U+A733", "U+A734", "U+A735", "U+A736",
     "U+A737", "U+A738", "U+A739", "U+A73A", "U+A73B", "U+A73C", "U+A73D", "U+A73E", "U+A73F",
     "U+A740", "U+A741", "U+A742", "U+A743", "U+A744", "U+A745", "U+A746", "U+A747", "U+A748",
     "U+A749", "U+A74A", "U+A74B", "U+A74C", "U+A74D", "U+A74E", "U+A74F", "U+A750", "U+A751",
     "U+A752", "U+A753", "U+A754", "U+A755", "U+A756", "U+A757", "U+A758", "U+A759", "U+A75A",
     "U+A75B", "U+A75C", "U+A75D", "U+A75E", "U+A75F", "U+A760", "U+A761", "U+A762", "U+A763",
     "U+A764", "U+A765", "U+A766", "U+A767", "U+A768", "U+A769", "U+A76A", "U+A76B", "U+A76C",
     "U+A76D", "U+A76E", "U+A76F", "U+A771", "U+A772", "U+A773", "U+A774", "U+A775", "U+A776",
     "U+A777", "U+A778", "U+A779", "U+A77A", "U+A77B", "U+A77C", "U+A77D", "U+A77E", "U+A77F",
     "U+A780", "U+A781", "U+A782", "U+A783", "U+A784", "U+A785", "U+A786", "U+A787", "U+A78B",
     "U+A78C", "U+A78D", "U+A78E", "U+A790", "U+A791", "U+A792", "U+A793", "U+A794", "U+A795",
     "U+A796", "U+A797", "U+A798", "U+A799", "U+A79A", "U+A79B", "U+A79C", "U+A79D", "U+A79E",
     "U+A79F", "U+A7A0", "U+A7A1", "U+A7A2", "U+A7A3", "U+A7A4", "U+A7A5", "U+A7A6", "U+A7A7",
     "U+A7A8", "U+A7A9", "U+A7AA", "U+A7AB", "U+A7AC", "U+A7AD", "U+A7AE", "U+A7AF", "U+A7B0",
     "U+A7B1", "U+A7B2", "U+A7B3", "U+A7B4", "U+A7B5", "U+A7B6", "U+A7B7", "U+A7B8", "U+A7B9",
     "U+A7BA", "U+A7BB", "U+A7BC", "U+A7BD", "U+A7BE", "U+A7BF", "U+A7C0", "U+A7C1", "U+A7C2",
     "U+A7C3", "U+A7C4", "U+A7C5", "U+A7C6", "U+A7C7", "U+A7C8", "U+A7C9", "U+A7CA", "U+A7D0",
     "U+A7D1", "U+A7D3", "U+A7D5", "U+A7D6", "U+A7D7", "U+A7D8", "U+A7D9", "U+A7F5", "U+A7F6",
     "U+A7FA", "U+AB30", "U+AB31", "U+AB32", "U+AB33", "U+AB34", "U+AB35", "U+AB36", "U+AB37",
     "U+AB38", "U+AB39", "U+AB3A", "U+AB3B", "U+AB3C", "U+AB3D", "U+AB3E", "U+AB3F", "U+AB40",
     "U+AB41", "U+AB42", "U+AB43", "U+AB44", "U+AB45", "U+AB46", "U+AB47", "U+AB48", "U+AB49",
     "U+AB4A", "U+AB4B", "U+AB4C", "U+AB4D", "U+AB4E", "U+AB4F", "U+AB50", "U+AB51", "U+AB52",
     "U+AB53", "U+AB54", "U+AB55", "U+AB56", "U+AB57", "U+AB58", "U+AB59", "U+AB5A", "U+AB60",
     "U+AB61", "U+AB62", "U+AB63", "U+AB64", "U+AB65", "U+AB66", "U+AB67", "U+AB68", "U+AB70",
     "U+AB71", "U+AB72", "U+AB73", "U+AB74", "U+AB75", "U+AB76", "U+AB77", "U+AB78", "U+AB79",
     "U+AB7A", "U+AB7B", "U+AB7C", "U+AB7D", "U+AB7E", "U+AB7F", "U+AB80", "U+AB81", "U+AB82",
     "U+AB83", "U+AB84", "U+AB85", "U+AB86", "U+AB87", "U+AB88", "U+AB89", "U+AB8A", "U+AB8B",
     "U+AB8C", "U+AB8D", "U+AB8E", "U+AB8F", "U+AB90", "U+AB91", "U+AB92", "U+AB93", "U+AB94",
     "U+AB95", "U+AB96", "U+AB97", "U+AB98", "U+AB99", "U+AB9A", "U+AB9B", "U+AB9C", "U+AB9D",
     "U+AB9E", "U+AB9F", "U+ABA0", "U+ABA1", "U+ABA2", "U+ABA3", "U+ABA4", "U+ABA5", "U+ABA6",
     "U+ABA7", "U+ABA8", "U+ABA9", "U+ABAA", "U+ABAB", "U+ABAC", "U+ABAD", "U+ABAE", "U+ABAF",
     "U+ABB0", "U+ABB1", "U+ABB2", "U+ABB3", "U+ABB4", "U+ABB5", "U+ABB6", "U+ABB7", "U+ABB8",
     "U+ABB9", "U+ABBA", "U+ABBB", "U+ABBC", "U+ABBD", "U+ABBE", "U+ABBF", "U+FB00", "U+FB01",
     "U+FB02", "U+FB03", "U+FB04", "U+FB05", "U+FB06", "U+FB13", "U+FB14", "U+FB15", "U+FB16",
     "U+FB17", "U+FF21", "U+FF22", "U+FF23", "U+FF24", "U+FF25", "U+FF26", "U+FF27", "U+FF28",
     "U+FF29", "U+FF2A", "U+FF2B", "U+FF2C", "U+FF2D", "U+FF2E", "U+FF2F", "U+FF30", "U+FF31",
     "U+FF32", "U+FF33", "U+FF34", "U+FF35", "U+FF36", "U+FF37", "U+FF38", "U+FF39", "U+FF3A",
     "U+FF41", "U+FF42", "U+FF43", "U+FF44", "U+FF45", "U+FF46", "U+FF47", "U+FF48", "U+FF49",
     "U+FF4A", "U+FF4B", "U+FF4C", "U+FF4D", "U+FF4E", "U+FF4F", "U+FF50", "U+FF51", "U+FF52",
     "U+FF53", "U+FF54", "U+FF55", "U+FF56", "U+FF57", "U+FF58", "U+FF59", "U+FF5A", "U+10400",
     "U+10401", "U+10402", "U+10403", "U+10404", "U+10405", "U+10406", "U+10407", "U+10408",
     "U+10409", "U+1040A", "U+1040B", "U+1040C", "U+1040D", "U+1040E", "U+1040F", "U+10410",
     "U+10411", "U+10412", "U+10413", "U+10414", "U+10415", "U+10416", "U+10417", "U+10418",
     "U+10419", "U+1041A", "U+1041B", "U+1041C", "U+1041D", "U+1041E", "U+1041F", "U+10420",
     "U+10421", "U+10422", "U+10423", "U+10424", "U+10425", "U+10426", "U+10427", "U+10428",
     "U+10429", "U+1042A", "U+1042B", "U+1042C", "U+1042D", "U+1042E", "U+1042F", "U+10430",
     "U+10431", "U+10432", "U+10433", "U+10434", "U+10435", "U+10436", "U+10437", "U+10438",
     "U+10439", "U+1043A", "U+1043B", "U+1043C", "U+1043D", "U+1043E", "U+1043F", "U+10440",
     "U+10441", "U+10442", "U+10443", "U+10444", "U+10445", "U+10446", "U+10447", "U+10448",
     "U+10449", "U+1044A", "U+1044B", "U+1044C", "U+1044D", "U+1044E", "U+1044F", "U+104B0",
     "U+104B1", "U+104B2", "U+104B3", "U+104B4", "U+104B5", "U+104B6", "U+104B7", "U+104B8",
     "U+104B9", "U+104BA", "U+104BB", "U+104BC", "U+104BD", "U+104BE", "U+104BF", "U+104C0",
     "U+104C1", "U+104C2", "U+104C3", "U+104C4", "U+104C5", "U+104C6", "U+104C7", "U+104C8",
     "U+104C9", "U+104CA", "U+104CB", "U+104CC", "U+104CD", "U+104CE", "U+104CF", "U+104D0",
     "U+104D1", "U+104D2", "U+104D3", "U+104D8", "U+104D9", "U+104DA", "U+104DB", "U+104DC",
     "U+104DD", "U+104DE", "U+104DF", "U+104E0", "U+104E1", "U+104E2", "U+104E3", "U+104E4",
     "U+104E5", "U+104E6", "U+104E7", "U+104E8", "U+104E9", "U+104EA", "U+104EB", "U+104EC",
     "U+104ED", "U+104EE", "U+104EF", "U+104F0", "U+104F1", "U+104F2", "U+104F3", "U+104F4",
     "U+104F5", "U+104F6", "U+104F7", "U+104F8", "U+104F9", "U+104FA", "U+104FB", "U+10570",
     "U+10571", "U+10572", "U+10573", "U+10574", "U+10575", "U+10576", "U+10577", "U+10578",
     "U+10579", "U+1057A", "U+1057C", "U+1057D", "U+1057E", "U+1057F", "U+10580", "U+10581",
     "U+10582", "U+10583", "U+10584", "U+10585", "U+10586", "U+10587", "U+10588", "U+10589",
     "U+1058A", "U+1058C", "U+1058D", "U+1058E", "U+1058F", "U+10590", "U+10591", "U+10592",
     "U+10594", "U+10595", "U+10597", "U+10598", "U+10599", "U+1059A", "U+1059B", "U+1059C",
     "U+1059D", "U+1059E", "U+1059F", "U+105A0", "U+105A1", "U+105A3", "U+105A4", "U+105A5",
     "U+105A6", "U+105A7", "U+105A8", "U+105A9", "U+105AA", "U+105AB", "U+105AC", "U+105AD",
     "U+105AE", "U+105AF", "U+105B0", "U+105B1", "U+105B3", "U+105B4", "U+105B5", "U+105B6",
     "U+105B7", "U+105B8", "U+105B9", "U+105BB", "U+105BC", "U+10C80", "U+10C81", "U+10C82",
     "U+10C83", "U+10C84", "U+10C85", "U+10C86", "U+10C87", "U+10C88", "U+10C89", "U+10C8A",
     "U+10C8B", "U+10C8C", "U+10C8D", "U+10C8E", "U+10C8F", "U+10C90", "U+10C91", "U+10C92",
     "U+10C93", "U+10C94", "U+10C95", "U+10C96", "U+10C97", "U+10C98", "U+10C99", "U+10C9A",
     "U+10C9B", "U+10C9C", "U+10C9D", "U+10C9E", "U+10C9F", "U+10CA0", "U+10CA1", "U+10CA2",
     "U+10CA3", "U+10CA4", "U+10CA5", "U+10CA6", "U+10CA7", "U+10CA8", "U+10CA9", "U+10CAA",
     "U+10CAB", "U+10CAC", "U+10CAD", "U+10CAE", "U+10CAF", "U+10CB0", "U+10CB1", "U+10CB2",
     "U+10CC0", "U+10CC1", "U+10CC2", "U+10CC3", "U+10CC4", "U+10CC5", "U+10CC6", "U+10CC7",
     "U+10CC8", "U+10CC9", "U+10CCA", "U+10CCB", "U+10CCC", "U+10CCD", "U+10CCE", "U+10CCF",
     "U+10CD0", "U+10CD1", "U+10CD2", "U+10CD3", "U+10CD4", "U+10CD5", "U+10CD6", "U+10CD7",
     "U+10CD8", "U+10CD9", "U+10CDA", "U+10CDB", "U+10CDC", "U+10CDD", "U+10CDE", "U+10CDF",
     "U+10CE0", "U+10CE1", "U+10CE2", "U+10CE3", "U+10CE4", "U+10CE5", "U+10CE6", "U+10CE7",
     "U+10CE8", "U+10CE9", "U+10CEA", "U+10CEB", "U+10CEC", "U+10CED", "U+10CEE", "U+10CEF",
     "U+10CF0", "U+10CF1", "U+10CF2", "U+118A0", "U+118A1", "U+118A2", "U+118A3", "U+118A4",
     "U+118A5", "U+118A6", "U+118A7", "U+118A8", "U+118A9", "U+118AA", "U+118AB", "U+118AC",
     "U+118AD", "U+118AE", "U+118AF", "U+118B0", "U+118B1", "U+118B2", "U+118B3", "U+118B4",
     "U+118B5", "U+118B6", "U+118B7", "U+118B8", "U+118B9", "U+118BA", "U+118BB", "U+118BC",
     "U+118BD", "U+118BE", "U+118BF", "U+118C0", "U+118C1", "U+118C2", "U+118C3", "U+118C4",
     "U+118C5", "U+118C6", "U+118C7", "U+118C8", "U+118C9", "U+118CA", "U+118CB", "U+118CC",
     "U+118CD", "U+118CE", "U+118CF", "U+118D0", "U+118D1", "U+118D2", "U+118D3", "U+118D4",
     "U+118D5", "U+118D6", "U+118D7", "U+118D8", "U+118D9", "U+118DA", "U+118DB", "U+118DC",
     "U+118DD", "U+118DE", "U+118DF", "U+16E40", "U+16E41", "U+16E42", "U+16E43", "U+16E44",
     "U+16E45", "U+16E46", "U+16E47", "U+16E48", "U+16E49", "U+16E4A", "U+16E4B", "U+16E4C",
     "U+16E4D", "U+16E4E", "U+16E4F", "U+16E50", "U+16E51", "U+16E52", "U+16E53", "U+16E54",
     "U+16E55", "U+16E56", "U+16E57", "U+16E58", "U+16E59", "U+16E5A", "U+16E5B", "U+16E5C",
     "U+16E5D", "U+16E5E", "U+16E5F", "U+16E60", "U+16E61", "U+16E62", "U+16E63", "U+16E64",
     "U+16E65", "U+16E66", "U+16E67", "U+16E68", "U+16E69", "U+16E6A", "U+16E6B", "U+16E6C",
     "U+16E6D", "U+16E6E", "U+16E6F", "U+16E70", "U+16E71", "U+16E72", "U+16E73", "U+16E74",
     "U+16E75", "U+16E76", "U+16E77", "U+16E78", "U+16E79", "U+16E7A", "U+16E7B", "U+16E7C",
     "U+16E7D", "U+16E7E", "U+16E7F", "U+1D400", "U+1D401", "U+1D402", "U+1D403", "U+1D404",
     "U+1D405", "U+1D406", "U+1D407", "U+1D408", "U+1D409", "U+1D40A", "U+1D40B", "U+1D40C",
     "U+1D40D", "U+1D40E", "U+1D40F", "U+1D410", "U+1D411", "U+1D412", "U+1D413", "U+1D414",
     "U+1D415", "U+1D416", "U+1D417", "U+1D418", "U+1D419", "U+1D41A", "U+1D41B", "U+1D41C",
     "U+1D41D", "U+1D41E", "U+1D41F", "U+1D420", "U+1D421", "U+1D422", "U+1D423", "U+1D424",
     "U+1D425", "U+1D426", "U+1D427", "U+1D428", "U+1D429", "U+1D42A", "U+1D42B", "U+1D42C",
     "U+1D42D", "U+1D42E", "U+1D42F", "U+1D430", "U+1D431", "U+1D432", "U+1D433", "U+1D434",
     "U+1D435", "U+1D436", "U+1D437", "U+1D438", "U+1D439", "U+1D43A", "U+1D43B", "U+1D43C",
     "U+1D43D", "U+1D43E", "U+1D43F", "U+1D440", "U+1D441", "U+1D442", "U+1D443", "U+1D444",
     "U+1D445", "U+1D446", "U+1D447", "U+1D448", "U+1D449", "U+1D44A", "U+1D44B", "U+1D44C",
     "U+1D44D", "U+1D44E", "U+1D44F", "U+1D450", "U+1D451", "U+1D452", "U+1D453", "U+1D454",
     "U+1D456", "U+1D457", "U+1D458", "U+1D459", "U+1D45A", "U+1D45B", "U+1D45C", "U+1D45D",
     "U+1D45E", "U+1D45F", "U+1D460", "U+1D461", "U+1D462", "U+1D463", "U+1D464", "U+1D465",
     "U+1D466", "U+1D467", "U+1D468", "U+1D469", "U+1D46A", "U+1D46B", "U+1D46C", "U+1D46D",
     "U+1D46E", "U+1D46F", "U+1D470", "U+1D471", "U+1D472", "U+1D473", "U+1D474", "U+1D475",
     "U+1D476", "U+1D477", "U+1D478", "U+1D479", "U+1D47A", "U+1D47B", "U+1D47C", "U+1D47D",
     "U+1D47E", "U+1D47F", "U+1D480", "U+1D481", "U+1D482", "U+1D483", "U+1D484", "U+1D485",
     "U+1D486", "U+1D487", "U+1D488", "U+1D489", "U+1D48A", "U+1D48B", "U+1D48C", "U+1D48D",
     "U+1D48E", "U+1D48F", "U+1D490", "U+1D491", "U+1D492", "U+1D493", "U+1D494", "U+1D495",
     "U+1D496", "U+1D497", "U+1D498", "U+1D499", "U+1D49A", "U+1D49B", "U+1D49C", "U+1D49E",
     "U+1D49F", "U+1D4A2", "U+1D4A5", "U+1D4A6", "U+1D4A9", "U+1D4AA", "U+1D4AB", "U+1D4AC",
     "U+1D4AE", "U+1D4AF", "U+1D4B0", "U+1D4B1", "U+1D4B2", "U+1D4B3", "U+1D4B4", "U+1D4B5",
     "U+1D4B6", "U+1D4B7", "U+1D4B8", "U+1D4B9", "U+1D4BB", "U+1D4BD", "U+1D4BE", "U+1D4BF",
     "U+1D4C0", "U+1D4C1", "U+1D4C2", "U+1D4C3", "U+1D4C5", "U+1D4C6", "U+1D4C7", "U+1D4C8",
     "U+1D4C9", "U+1D4CA", "U+1D4CB", "U+1D4CC", "U+1D4CD", "U+1D4CE", "U+1D4CF", "U+1D4D0",
     "U+1D4D1", "U+1D4D2", "U+1D4D3", "U+1D4D4", "U+1D4D5", "U+1D4D6", "U+1D4D7", "U+1D4D8",
     "U+1D4D9", "U+1D4DA", "U+1D4DB", "U+1D4DC", "U+1D4DD", "U+1D4DE", "U+1D4DF", "U+1D4E0",
     "U+1D4E1", "U+1D4E2", "U+1D4E3", "U+1D4E4", "U+1D4E5", "U+1D4E6", "U+1D4E7", "U+1D4E8",
     "U+1D4E9", "U+1D4EA", "U+1D4EB", "U+1D4EC", "U+1D4ED", "U+1D4EE", "U+1D4EF", "U+1D4F0",
     "U+1D4F1", "U+1D4F2", "U+1D4F3", "U+1D4F4", "U+1D4F5", "U+1D4F6", "U+1D4F7", "U+1D4F8",
     "U+1D4F9", "U+1D4FA", "U+1D4FB", "U+1D4FC", "U+1D4FD", "U+1D4FE", "U+1D4FF", "U+1D500",
     "U+1D501", "U+1D502", "U+1D503", "U+1D504", "U+1D505", "U+1D507", "U+1D508", "U+1D509",
     "U+1D50A", "U+1D50D", "U+1D50E", "U+1D50F", "U+1D510", "U+1D511", "U+1D512", "U+1D513",
     "U+1D514", "U+1D516", "U+1D517", "U+1D518", "U+1D519", "U+1D51A", "U+1D51B", "U+1D51C",
     "U+1D51E", "U+1D51F", "U+1D520", "U+1D521", "U+1D522", "U+1D523", "U+1D524", "U+1D525",
     "U+1D526", "U+1D527", "U+1D528", "U+1D529", "U+1D52A", "U+1D52B", "U+1D52C", "U+1D52D",
     "U+1D52E", "U+1D52F", "U+1D530", "U+1D531", "U+1D532", "U+1D533", "U+1D534", "U+1D535",
     "U+1D536", "U+1D537", "U+1D538", "U+1D539", "U+1D53B", "U+1D53C", "U+1D53D", "U+1D53E",
     "U+1D540", "U+1D541", "U+1D542", "U+1D543", "U+1D544", "U+1D546", "U+1D54A", "U+1D54B",
     "U+1D54C", "U+1D54D", "U+1D54E", "U+1D54F", "U+1D550", "U+1D552", "U+1D553", "U+1D554",
     "U+1D555", "U+1D556", "U+1D557", "U+1D558", "U+1D559", "U+1D55A", "U+1D55B", "U+1D55C",
     "U+1D55D", "U+1D55E", "U+1D55F", "U+1D560", "U+1D561", "U+1D562", "U+1D563", "U+1D564",
     "U+1D565", "U+1D566", "U+1D567", "U+1D568", "U+1D569", "U+1D56A", "U+1D56B", "U+1D56C",
     "U+1D56D", "U+1D56E", "U+1D56F", "U+1D570", "U+1D571", "U+1D572", "U+1D573", "U+1D574",
     "U+1D575", "U+1D576", "U+1D577", "U+1D578", "U+1D579", "U+1D57A", "U+1D57B", "U+1D57C",
     "U+1D57D", "U+1D57E", "U+1D57F", "U+1D580", "U+1D581", "U+1D582", "U+1D583", "U+1D584",
     "U+1D585", "U+1D586", "U+1D587", "U+1D588", "U+1D589", "U+1D58A", "U+1D58B", "U+1D58C",
     "U+1D58D", "U+1D58E", "U+1D58F", "U+1D590", "U+1D591", "U+1D592", "U+1D593", "U+1D594",
     "U+1D595", "U+1D596", "U+1D597", "U+1D598", "U+1D599", "U+1D59A", "U+1D59B", "U+1D59C",
     "U+1D59D", "U+1D59E", "U+1D59F", "U+1D5A0", "U+1D5A1", "U+1D5A2", "U+1D5A3", "U+1D5A4",
     "U+1D5A5", "U+1D5A6", "U+1D5A7", "U+1D5A8", "U+1D5A9", "U+1D5AA", "U+1D5AB", "U+1D5AC",
     "U+1D5AD", "U+1D5AE", "U+1D5AF", "U+1D5B0", "U+1D5B1", "U+1D5B2", "U+1D5B3", "U+1D5B4",
     "U+1D5B5", "U+1D5B6", "U+1D5B7", "U+1D5B8", "U+1D5B9", "U+1D5BA", "U+1D5BB", "U+1D5BC",
     "U+1D5BD", "U+1D5BE", "U+1D5BF", "U+1D5C0", "U+1D5C1", "U+1D5C2", "U+1D5C3", "U+1D5C4",
     "U+1D5C5", "U+1D5C6", "U+1D5C7", "U+1D5C8", "U+1D5C9", "U+1D5CA", "U+1D5CB", "U+1D5CC",
     "U+1D5CD", "U+1D5CE", "U+1D5CF", "U+1D5D0", "U+1D5D1", "U+1D5D2", "U+1D5D3", "U+1D5D4",
     "U+1D5D5", "U+1D5D6", "U+1D5D7", "U+1D5D8", "U+1D5D9", "U+1D5DA", "U+1D5DB", "U+1D5DC",
     "U+1D5DD", "U+1D5DE", "U+1D5DF", "U+1D5E0", "U+1D5E1", "U+1D5E2", "U+1D5E3", "U+1D5E4",
     "U+1D5E5", "U+1D5E6", "U+1D5E7", "U+1D5E8", "U+1D5E9", "U+1D5EA", "U+1D5EB", "U+1D5EC",
     "U+1D5ED", "U+1D5EE", "U+1D5EF", "U+1D5F0", "U+1D5F1", "U+1D5F2", "U+1D5F3", "U+1D5F4",
     "U+1D5F5", "U+1D5F6", "U+1D5F7", "U+1D5F8", "U+1D5F9", "U+1D5FA", "U+1D5FB", "U+1D5FC",
     "U+1D5FD", "U+1D5FE", "U+1D5FF", "U+1D600", "U+1D601", "U+1D602", "U+1D603", "U+1D604",
     "U+1D605", "U+1D606", "U+1D607", "U+1D608", "U+1D609", "U+1D60A", "U+1D60B", "U+1D60C",
     "U+1D60D", "U+1D60E", "U+1D60F", "U+1D610", "U+1D611", "U+1D612", "U+1D613", "U+1D614",
     "U+1D615", "U+1D616", "U+1D617", "U+1D618", "U+1D619", "U+1D61A", "U+1D61B", "U+1D61C",
     "U+1D61D", "U+1D61E", "U+1D61F", "U+1D620", "U+1D621", "U+1D622", "U+1D623", "U+1D624",
     "U+1D625", "U+1D626", "U+1D627", "U+1D628", "U+1D629", "U+1D62A", "U+1D62B", "U+1D62C",
     "U+1D62D", "U+1D62E", "U+1D62F", "U+1D630", "U+1D631", "U+1D632", "U+1D633", "U+1D634",
     "U+1D635", "U+1D636", "U+1D637", "U+1D638", "U+1D639", "U+1D63A", "U+1D63B", "U+1D63C",
     "U+1D63D", "U+1D63E", "U+1D63F", "U+1D640", "U+1D641", "U+1D642", "U+1D643", "U+1D644",
     "U+1D645", "U+1D646", "U+1D647", "U+1D648", "U+1D649", "U+1D64A", "U+1D64B", "U+1D64C",
     "U+1D64D", "U+1D64E", "U+1D64F", "U+1D650", "U+1D651", "U+1D652", "U+1D653", "U+1D654",
     "U+1D655", "U+1D656", "U+1D657", "U+1D658", "U+1D659", "U+1D65A", "U+1D65B", "U+1D65C",
     "U+1D65D", "U+1D65E", "U+1D65F", "U+1D660", "U+1D661", "U+1D662", "U+1D663", "U+1D664",
     "U+1D665", "U+1D666", "U+1D667", "U+1D668", "U+1D669", "U+1D66A", "U+1D66B", "U+1D66C",
     "U+1D66D", "U+1D66E", "U+1D66F", "U+1D670", "U+1D671", "U+1D672", "U+1D673", "U+1D674",
     "U+1D675", "U+1D676", "U+1D677", "U+1D678", "U+1D679", "U+1D67A", "U+1D67B", "U+1D67C",
     "U+1D67D", "U+1D67E", "U+1D67F", "U+1D680", "U+1D681", "U+1D682", "U+1D683", "U+1D684",
     "U+1D685", "U+1D686", "U+1D687", "U+1D688", "U+1D689", "U+1D68A", "U+1D68B", "U+1D68C",
     "U+1D68D", "U+1D68E", "U+1D68F", "U+1D690", "U+1D691", "U+1D692", "U+1D693", "U+1D694",
     "U+1D695", "U+1D696", "U+1D697", "U+1D698", "U+1D699", "U+1D69A", "U+1D69B", "U+1D69C",
     "U+1D69D", "U+1D69E", "U+1D69F", "U+1D6A0", "U+1D6A1", "U+1D6A2", "U+1D6A3", "U+1D6A4",
     "U+1D6A5", "U+1D6A8", "U+1D6A9", "U+1D6AA", "U+1D6AB", "U+1D6AC", "U+1D6AD", "U+1D6AE",
     "U+1D6AF", "U+1D6B0", "U+1D6B1", "U+1D6B2", "U+1D6B3", "U+1D6B4", "U+1D6B5", "U+1D6B6",
     "U+1D6B7", "U+1D6B8", "U+1D6B9", "U+1D6BA", "U+1D6BB", "U+1D6BC", "U+1D6BD", "U+1D6BE",
     "U+1D6BF", "U+1D6C0", "U+1D6C2", "U+1D6C3", "U+1D6C4", "U+1D6C5", "U+1D6C6", "U+1D6C7",
     "U+1D6C8", "U+1D6C9", "U+1D6CA", "U+1D6CB", "U+1D6CC", "U+1D6CD", "U+1D6CE", "U+1D6CF",
     "U+1D6D0", "U+1D6D1", "U+1D6D2", "U+1D6D3", "U+1D6D4", "U+1D6D5", "U+1D6D6", "U+1D6D7",
     "U+1D6D8", "U+1D6D9", "U+1D6DA", "U+1D6DC", "U+1D6DD", "U+1D6DE", "U+1D6DF", "U+1D6E0",
     "U+1D6E1", "U+1D6E2", "U+1D6E3", "U+1D6E4", "U+1D6E5", "U+1D6E6", "U+1D6E7", "U+1D6E8",
     "U+1D6E9", "U+1D6EA", "U+1D6EB", "U+1D6EC", "U+1D6ED", "U+1D6EE", "U+1D6EF", "U+1D6F0",
     "U+1D6F1", "U+1D6F2", "U+1D6F3", "U+1D6F4", "U+1D6F5", "U+1D6F6", "U+1D6F7", "U+1D6F8",
     "U+1D6F9", "U+1D6FA", "U+1D6FC", "U+1D6FD", "U+1D6FE", "U+1D6FF", "U+1D700", "U+1D701",
     "U+1D702", "U+1D703", "U+1D704", "U+1D705", "U+1D706", "U+1D707", "U+1D708", "U+1D709",
     "U+1D70A", "U+1D70B", "U+1D70C", "U+1D70D", "U+1D70E", "U+1D70F", "U+1D710", "U+1D711",
     "U+1D712", "U+1D713", "U+1D714", "U+1D716", "U+1D717", "U+1D718", "U+1D719", "U+1D71A",
     "U+1D71B", "U+1D71C", "U+1D71D", "U+1D71E", "U+1D71F", "U+1D720", "U+1D721", "U+1D722",
     "U+1D723", "U+1D724", "U+1D725", "U+1D726", "U+1D727", "U+1D728", "U+1D729", "U+1D72A",
     "U+1D72B", "U+1D72C", "U+1D72D", "U+1D72E", "U+1D72F", "U+1D730", "U+1D731", "U+1D732",
     "U+1D733", "U+1D734", "U+1D736", "U+1D737", "U+1D738", "U+1D739", "U+1D73A", "U+1D73B",
     "U+1D73C", "U+1D73D", "U+1D73E", "U+1D73F", "U+1D740", "U+1D741", "U+1D742", "U+1D743",
     "U+1D744", "U+1D745", "U+1D746", "U+1D747", "U+1D748", "U+1D749", "U+1D74A", "U+1D74B",
     "U+1D74C", "U+1D74D", "U+1D74E", "U+1D750", "U+1D751", "U+1D752", "U+1D753", "U+1D754",
     "U+1D755", "U+1D756", "U+1D757", "U+1D758", "U+1D759", "U+1D75A", "U+1D75B", "U+1D75C",
     "U+1D75D", "U+1D75E", "U+1D75F", "U+1D760", "U+1D761", "U+1D762", "U+1D763", "U+1D764",
     "U+1D765", "U+1D766", "U+1D767", "U+1D768", "U+1D769", "U+1D76A", "U+1D76B", "U+1D76C",
     "U+1D76D", "U+1D76E", "U+1D770", "U+1D771", "U+1D772", "U+1D773", "U+1D774", "U+1D775",
     "U+1D776", "U+1D777", "U+1D778", "U+1D779", "U+1D77A", "U+1D77B", "U+1D77C", "U+1D77D",
     "U+1D77E", "U+1D77F", "U+1D780", "U+1D781", "U+1D782", "U+1D783", "U+1D784", "U+1D785",
     "U+1D786", "U+1D787", "U+1D788", "U+1D78A", "U+1D78B", "U+1D78C", "U+1D78D", "U+1D78E",
     "U+1D78F", "U+1D790", "U+1D791", "U+1D792", "U+1D793", "U+1D794", "U+1D795", "U+1D796",
     "U+1D797", "U+1D798", "U+1D799", "U+1D79A", "U+1D79B", "U+1D79C", "U+1D79D", "U+1D79E",
     "U+1D79F", "U+1D7A0", "U+1D7A1", "U+1D7A2", "U+1D7A3", "U+1D7A4", "U+1D7A5", "U+1D7A6",
     "U+1D7A7", "U+1D7A8", "U+1D7AA", "U+1D7AB", "U+1D7AC", "U+1D7AD", "U+1D7AE", "U+1D7AF",
     "U+1D7B0", "U+1D7B1", "U+1D7B2", "U+1D7B3", "U+1D7B4", "U+1D7B5", "U+1D7B6", "U+1D7B7",
     "U+1D7B8", "U+1D7B9", "U+1D7BA", "U+1D7BB", "U+1D7BC", "U+1D7BD", "U+1D7BE", "U+1D7BF",
     "U+1D7C0", "U+1D7C1", "U+1D7C2", "U+1D7C4", "U+1D7C5", "U+1D7C6", "U+1D7C7", "U+1D7C8",
     "U+1D7C9", "U+1D7CA", "U+1D7CB", "U+1DF00", "U+1DF01", "U+1DF02", "U+1DF03", "U+1DF04",
     "U+1DF05", "U+1DF06", "U+1DF07", "U+1DF08", "U+1DF09", "U+1DF0B", "U+1DF0C", "U+1DF0D",
     "U+1DF0E", "U+1DF0F", "U+1DF10", "U+1DF11", "U+1DF12", "U+1DF13", "U+1DF14", "U+1DF15",
     "U+1DF16", "U+1DF17", "U+1DF18", "U+1DF19", "U+1DF1A", "U+1DF1B", "U+1DF1C", "U+1DF1D",
     "U+1DF1E", "U+1E900", "U+1E901", "U+1E902", "U+1E903", "U+1E904", "U+1E905", "U+1E906",
     "U+1E907", "U+1E908", "U+1E909", "U+1E90A", "U+1E90B", "U+1E90C", "U+1E90D", "U+1E90E",
     "U+1E90F", "U+1E910", "U+1E911", "U+1E912", "U+1E913", "U+1E914", "U+1E915", "U+1E916",
     "U+1E917", "U+1E918", "U+1E919", "U+1E91A", "U+1E91B", "U+1E91C", "U+1E91D", "U+1E91E",
     "U+1E91F", "U+1E920", "U+1E921", "U+1E922", "U+1E923", "U+1E924", "U+1E925", "U+1E926",
     "U+1E927", "U+1E928", "U+1E929", "U+1E92A", "U+1E92B", "U+1E92C", "U+1E92D", "U+1E92E",
     "U+1E92F", "U+1E930", "U+1E931", "U+1E932", "U+1E933", "U+1E934", "U+1E935", "U+1E936",
     "U+1E937", "U+1E938", "U+1E939", "U+1E93A", "U+1E93B", "U+1E93C", "U+1E93D", "U+1E93E",
     "U+1E93F", "U+1E940", "U+1E941", "U+1E942", "U+1E943", "U+1F130", "U+1F131", "U+1F132",
     "U+1F133", "U+1F134", "U+1F135", "U+1F136", "U+1F137", "U+1F138", "U+1F139", "U+1F13A",
     "U+1F13B", "U+1F13C", "U+1F13D", "U+1F13E", "U+1F13F", "U+1F140", "U+1F141", "U+1F142",
     "U+1F143", "U+1F144", "U+1F145", "U+1F146", "U+1F147", "U+1F148", "U+1F149", "U+1F150",
     "U+1F151", "U+1F152", "U+1F153", "U+1F154", "U+1F155", "U+1F156", "U+1F157", "U+1F158",
     "U+1F159", "U+1F15A", "U+1F15B", "U+1F15C", "U+1F15D", "U+1F15E", "U+1F15F", "U+1F160",
     "U+1F161", "U+1F162", "U+1F163", "U+1F164", "U+1F165", "U+1F166", "U+1F167", "U+1F168",
     "U+1F169", "U+1F170", "U+1F171", "U+1F172", "U+1F173", "U+1F174", "U+1F175", "U+1F176",
     "U+1F177", "U+1F178", "U+1F179", "U+1F17A", "U+1F17B", "U+1F17C", "U+1F17D", "U+1F17E",
     "U+1F17F", "U+1F180", "U+1F181", "U+1F182", "U+1F183", "U+1F184", "U+1F185", "U+1F186",
     "U+1F187", "U+1F188", "U+1F189"}

LowerOf == [c \in {UpperChars[i] : i \in 1..26} |->
               LowerChars[CHOOSE i \in 1..26 : UpperChars[i] = c]]

\* the lowercase of one character, one character for one: what str.lower()
\* writes for it except for U+0130 and for a capital sigma, and what
\* re.IGNORECASE compares
LowerChar(c) ==
    IF c \in DOMAIN LowerOf THEN LowerOf[c]
    ELSE IF c \in UnicodeUpperSet
    THEN UnicodeLowerChars[CHOOSE i \in 1..Len(UnicodeUpperChars) : UnicodeUpperChars[i] = c]
    ELSE c

\* whitespace as str.strip(), str.split() and the regex class \s see it
IsSpace(c) == c \in SpaceChars

\* the regex class \d
IsDigit(c) == c \in DecimalDigitChars

\* the value int() gives to a decimal digit
DigitValue(c) == (CHOOSE d \in 1..10 : c \in DecimalChars[d]) - 1

\* s.startswith(sub) at offset i (1-based): s[i..] begins with sub
MatchesAt(s, sub, i) ==
    /\ i + Len(sub) - 1 <= Len(s)
    /\ \A k \in 1..Len(sub) : s[i + k - 1] = sub[k]

\* re.IGNORECASE on one character p of a str pattern: c matches when its
\* lowercase is the lowercase of p or one that ExtraCases pairs with it
EqualsIgnoreCase(c, p) ==
    \/ LowerChar(c) = LowerChar(p)
    \/ <<LowerChar(p), LowerChar(c)>> \in ExtraCases

\* the same, ignoring case, as re.IGNORECASE matches a word
MatchesAtIgnoreCase(s, sub, i) ==
    /\ i + Len(sub) - 1 <= Len(s)
    /\ \A k \in 1..Len(sub) : EqualsIgnoreCase(s[i + k - 1], sub[k])

\* sub in s
Contains(s, sub) == \E i \in 1..(Len(s) + 1) : MatchesAt(s, sub, i)

\* s.startswith(sub)
StartsWith(s, sub) == MatchesAt(s, sub, 1)

\* s.strip()
Strip(s) ==
    LET keep == {i \in 1..Len(s) : ~IsSpace(s[i])}
    IN  IF keep = {} THEN <<>>
        ELSE LET lo == CHOOSE i \in keep : \A j \in keep : i <= j
                 hi == CHOOSE i \in keep : \A j \in keep : j <= i
             IN  SubSeq(s, lo, hi)

\* s.split(sep) for a one-character separator: always at least one piece
RECURSIVE Split(_, _)
Split(s, sep) ==
    IF \A i \in 1..Len(s) : s[i] # sep
    THEN <<s>>
    ELSE LET p == CHOOSE i \in 1..Len(s) : s[i] = sep /\ \A j \in 1..(i - 1) : s[j] # sep
         IN  <<SubSeq(s, 1, p - 1)>> \o Split(SubSeq(s, p + 1, Len(s)), sep)

\* s.replace(old, new): every non-overlapping occurrence, left to right
RECURSIVE Replace(_, _, _)
Replace(s, old, new) ==
    IF s = <<>> THEN <<>>
    ELSE IF MatchesAt(s, old, 1)
         THEN new \o Replace(SubSeq(s, Len(old) + 1, Len(s)), old, new)
         ELSE <<s[1]>> \o Replace(Tail(s), old, new)

\* sep.join(parts)
RECURSIVE Join(_, _)
Join(parts, sep) ==
    IF parts = <<>> THEN <<>>
    ELSE IF Len(parts) = 1 THEN parts[1]
         ELSE parts[1] \o sep \o Join(Tail(parts), sep)

\* the concatenation of a sequence of strings
Concat(parts) == Join(parts, <<>>)

\* whether str.lower() writes the capital sigma at place i as a final sigma: the
\* nearest character before it that is not skipped is cased, and the nearest
\* one after it is not
FinalSigma(s, i) ==
    LET before == {j \in 1..(i - 1) : s[j] \notin CaseIgnorableChars}
        after == {j \in (i + 1)..Len(s) : s[j] \notin CaseIgnorableChars}
    IN  /\ before # {}
        /\ s[CHOOSE j \in before : \A k \in before : k <= j] \in CasedChars
        /\ \/ after = {}
           \/ s[CHOOSE j \in after : \A k \in after : j <= k] \notin CasedChars

\* what str.lower() writes for the character at place i
LowerAt(s, i) ==
    IF s[i] = "U+03A3" THEN <<IF FinalSigma(s, i) THEN "U+03C2" ELSE "U+03C3">>
    ELSE IF s[i] = "U+0130" THEN <<"i", "U+0307">>
    ELSE <<LowerChar(s[i])>>

\* s.lower(); only U+0130 and the capital sigma are not lowered one by one
Lower(s) ==
    IF \A i \in 1..Len(s) : s[i] \notin {"U+03A3", "U+0130"}
    THEN [i \in 1..Len(s) |-> LowerChar(s[i])]
    ELSE Concat([i \in 1..Len(s) |-> LowerAt(s, i)])

\* all sequences over S of length 0..n
SeqsUpTo(S, n) == UNION {[1..k -> S] : k \in 0..n}

Min(a, b) == IF a <= b THEN a ELSE b
Max(a, b) == IF a >= b THEN a ELSE b

(***************************************************************************)
(* LaunchPadAgent: process_message and _invoke_claude.                     *)
(***************************************************************************)
\* self.model_configs as __init__ builds it: the one registered name and its
\* body_format
ModelConfigs == [model_name \in {"nova-micro"} |-> "nova"]

\* self.fallback_models as __init__ builds it
FallbackModels == <<"claude-haiku", "claude-sonnet">>

\* os.getenv('BEDROCK_MODEL_ID', 'nova-micro'): the default, the names of the
\* fallbacks, and the model id the other services read from the same variable
PrimaryModels == {"nova-micro", "claude-haiku", "claude-sonnet", "us.amazon.nova-micro-v1:0"}

\* completions the endpoint can answer with
T_Hi == <<"H", "i">>
T_Steps == <<" ", "S", "t", "e", "p", "s", ":", " ", "1", ".", "a", " ", "2", ".", "b", "\n">>
Completions == {<<>>, T_Hi, T_Steps}

\* an answer of the endpoint: the call raises (or the envelope cannot be
\* navigated), or the envelope carries a text
Answers == {[ok |-> FALSE, text |-> <<>>]} \cup {[ok |-> TRUE, text |-> t] : t \in Completions}

NoOutcome == [kind |-> "none", text |-> <<>>, error |-> ""]
NoReply == [kind |-> "none", text |-> <<>>]

\* "I apologize, but I'm experiencing technical difficulties. Please try again in a moment."
ApologyText ==
    <<"I", " ", "a", "p", "o", "l", "o", "g", "i", "z", "e", ",", " ", "b", "u", "t", " ",
      "I", "'", "m", " ", "e", "x", "p", "e", "r", "i", "e", "n", "c", "i", "n", "g", " ",
      "t", "e", "c", "h", "n", "i", "c", "a", "l", " ", "d", "i", "f", "f", "i", "c", "u",
      "l", "t", "i", "e", "s", ".", " ", "P", "l", "e", "a", "s", "e", " ", "t", "r", "y",
      " ", "a", "g", "a", "i", "n", " ", "i", "n", " ", "a", " ", "m", "o", "m", "e", "n",
      "t", ".">>

\* keyword literals of _format_response
AgentWords ==
    [steps |-> <<"s", "t", "e", "p", "s">>,
     recommendations |-> <<"r", "e", "c", "o", "m", "m", "e", "n", "d", "a", "t", "i", "o",
           "n", "s">>]

\* _format_response
FormatResponse(response) ==
    LET formatted == Strip(response)
    IN  IF \/ Contains(Lower(formatted), AgentWords.steps)
           \/ Contains(Lower(formatted), AgentWords.recommendations)
        THEN Replace(Replace(Replace(formatted, <<"1", ".">>, <<"\n", "1", ".">>),
                             <<"2", ".">>, <<"\n", "2", ".">>),
                     <<"3", ".">>, <<"\n", "3", ".">>)
        ELSE formatted

\* `model_name not in self.model_configs`
Registered(model_name) == model_name \in DOMAIN model_configs

\* the candidate at position p gets a model call: it is registered and its
\* body_format is 'nova' (the only format that has a request body, and the
\* format of every entry __init__ registers)
Callable(p) ==
    /\ Registered(models_to_try[p])
    /\ model_configs[models_to_try[p]] = "nova"

\* `model_name == models_to_try[-1]`: a comparison of names, not of positions
IsLastModel(model_name, models) == model_name = models[Len(models)]

\* how control leaves _invoke_claude: by its return or by a raise
PcAfter(outcome) == IF outcome.kind = "raise" THEN "raised" ELSE "returned"

\* `return response_body['output']['message']['content'][0]['text']`
ReturnText(text) == [kind |-> "return", text |-> text, error |-> ""]

\* `raise e` for the failure of the last model
ReraiseFailure == [kind |-> "raise", text |-> <<>>, error |-> "invocation failure"]

\* a plausible slip: the function returns nothing where it has to raise
AllModelsFailed_ReturnsNothing == [kind |-> "return", text |-> <<>>, error |-> ""]

\* `raise Exception("All models failed to respond")`
AllModelsFailed == [kind |-> "raise", text |-> <<>>, error |-> "All models failed to respond"]

\* a LaunchPadAgent as __init__ leaves it, process_message called on it, and
\* what the endpoint answers to a call for each position of the list
AgentStart ==
    /\ model_configs = ModelConfigs
    /\ primary_model \in PrimaryModels
    /\ fallback_models = FallbackModels
    /\ backend \in [1..(1 + Len(FallbackModels)) -> Answers]
    /\ agent_pc = "ready"
    /\ models_to_try = <<>>
    /\ idx = 0
    /\ calls = <<>>
    /\ logged = <<>>
    /\ invoke_out = NoOutcome
    /\ reply = NoReply

\* process_message enters _invoke_claude: models_to_try = [primary] + fallbacks
InvokeStart ==
    /\ AgentFrame
    /\ agent_pc = "ready"
    /\ models_to_try' = <<primary_model>> \o fallback_models
    /\ idx' = 1
    /\ agent_pc' = "loop"
    /\ UNCHANGED <<model_configs, primary_model, fallback_models, backend, calls,
                   logged, invoke_out, reply>>

\* a plausible slip: the skip is logged as a failure of the candidate
SkipUnregistered_Logged ==
    /\ AgentFrame
    /\ agent_pc = "loop"
    /\ idx <= Len(models_to_try)
    /\ ~Registered(models_to_try[idx])
    /\ idx' = idx + 1
    /\ logged' = Append(logged, idx)
    /\ UNCHANGED <<model_configs, primary_model, fallback_models, backend, agent_pc,
                   models_to_try, calls, invoke_out, reply>>

\* `if model_name not in self.model_configs: continue`
SkipUnregistered ==
    /\ AgentFrame
    /\ agent_pc = "loop"
    /\ idx <= Len(models_to_try)
    /\ ~Registered(models_to_try[idx])
    /\ idx' = idx + 1
    /\ UNCHANGED <<model_configs, primary_model, fallback_models, backend, agent_pc,
                   models_to_try, calls, logged, invoke_out, reply>>

\* a plausible slip: the text is kept and the loop goes on to the next
\* candidate
CallReturns_GoesOn ==
    /\ AgentFrame
    /\ agent_pc = "loop"
    /\ idx <= Len(models_to_try)
    /\ Callable(idx)
    /\ backend[idx].ok
    /\ calls' = Append(calls, idx)
    /\ invoke_out' = ReturnText(backend[idx].text)
    /\ idx' = idx + 1
    /\ UNCHANGED <<model_configs, primary_model, fallback_models, backend, agent_pc,
                   models_to_try, logged, reply>>

\* invoke_model answers and the envelope carries a text: return it
CallReturns ==
    /\ AgentFrame
    /\ agent_pc = "loop"
    /\ idx <= Len(models_to_try)
    /\ Callable(idx)
    /\ backend[idx].ok
    /\ calls' = Append(calls, idx)
    /\ invoke_out' = ReturnText(backend[idx].text)
    /\ agent_pc' = PcAfter(invoke_out')
    /\ UNCHANGED <<model_configs, primary_model, fallback_models, backend,
                   models_to_try, idx, logged, reply>>

\* a plausible slip: the failure is re-raised wherever the candidate stands
CallFails_RaisesAtOnce ==
    /\ AgentFrame
    /\ agent_pc = "loop"
    /\ idx <= Len(models_to_try)
    /\ Callable(idx)
    /\ ~backend[idx].ok
    /\ calls' = Append(calls, idx)
    /\ logged' = Append(logged, idx)
    /\ invoke_out' = ReraiseFailure
    /\ agent_pc' = PcAfter(invoke_out')
    /\ UNCHANGED <<model_configs, primary_model, fallback_models, backend,
                   models_to_try, idx, reply>>

\* a plausible slip: the candidate that failed is tried once more
CallFails_Retries ==
    /\ AgentFrame
    /\ agent_pc = "loop"
    /\ idx <= Len(models_to_try)
    /\ Callable(idx)
    /\ ~backend[idx].ok
    /\ calls' = Append(calls, idx)
    /\ logged' = Append(logged, idx)
    /\ IF IsLastModel(models_to_try[idx], models_to_try)
       THEN /\ invoke_out' = ReraiseFailure
            /\ agent_pc' = PcAfter(invoke_out')
            /\ idx' = idx
       ELSE /\ idx' = IF \E i \in 1..Len(logged) : logged[i] = idx THEN idx + 1 ELSE idx
            /\ UNCHANGED <<invoke_out, agent_pc>>
    /\ UNCHANGED <<model_configs, primary_model, fallback_models, backend,
                   models_to_try, reply>>

\* invoke_model (or reading the envelope) raises: log, then re-raise when the
\* name is the last name of the list, else continue
CallFails ==
    /\ AgentFrame
    /\ agent_pc = "loop"
    /\ idx <= Len(models_to_try)
    /\ Callable(idx)
    /\ ~backend[idx].ok
    /\ calls' = Append(calls, idx)
    /\ logged' = Append(logged, idx)
    /\ IF IsLastModel(models_to_try[idx], models_to_try)
       THEN /\ invoke_out' = ReraiseFailure
            /\ agent_pc' = PcAfter(invoke_out')
            /\ idx' = idx
       ELSE /\ idx' = idx + 1
            /\ UNCHANGED <<invoke_out, agent_pc>>
    /\ UNCHANGED <<model_configs, primary_model, fallback_models, backend,
                   models_to_try, reply>>

\* the loop is over without a return
Exhausted ==
    /\ AgentFrame
    /\ agent_pc = "loop"
    /\ idx > Len(models_to_try)
    /\ invoke_out' = AllModelsFailed
    /\ agent_pc' = PcAfter(invoke_out')
    /\ UNCHANGED <<model_configs, primary_model, fallback_models, backend,
                   models_to_try, idx, calls, logged, reply>>

\* process_message: `return self._format_response(response)`
ProcessMessageReturns ==
    /\ AgentFrame
    /\ agent_pc = "returned"
    /\ reply' = [kind |-> "text", text |-> FormatResponse(invoke_out.text)]
    /\ agent_pc' = "done"
    /\ UNCHANGED <<model_configs, primary_model, fallback_models, backend,
                   models_to_try, idx, calls, logged, invoke_out>>

\* process_message: `except Exception` returns the fixed apology
ProcessMessageCatches ==
    /\ AgentFrame
    /\ agent_pc = "raised"
    /\ reply' = [kind |-> "text", text |-> ApologyText]
    /\ agent_pc' = "done"
    /\ UNCHANGED <<model_configs, primary_model, fallback_models, backend,
                   models_to_try, idx, calls, logged, invoke_out>>

(***************************************************************************)
(* JobSearcher._extract_match_score.                                       *)
(***************************************************************************)
\* literals of the patterns and of the sentiment bands
ScoreWords ==
    [score |-> <<"s", "c", "o", "r", "e">>,
     match |-> <<"m", "a", "t", "c", "h">>,
     per100 |-> <<"/", "1", "0", "0">>,
     excellent |-> <<"e", "x", "c", "e", "l", "l", "e", "n", "t">>,
     perfect |-> <<"p", "e", "r", "f", "e", "c", "t">>,
     good |-> <<"g", "o", "o", "d">>,
     strong |-> <<"s", "t", "r", "o", "n", "g">>,
     fair |-> <<"f", "a", "i", "r">>,
     adequate |-> <<"a", "d", "e", "q", "u", "a", "t", "e">>]

\* score_patterns, in the order of the list: r'score[:\s]+(\d+)',
\* r'(\d+)(?:/100|\%)', r'match[:\s]+(\d+)'
score_patterns_PercentFirst ==
    << [kind |-> "number_suffix", word |-> <<>>],
       [kind |-> "word_number", word |-> ScoreWords.score],
       [kind |-> "word_number", word |-> ScoreWords.match] >>

score_patterns ==
    << [kind |-> "word_number", word |-> ScoreWords.score],
       [kind |-> "number_suffix", word |-> <<>>],
       [kind |-> "word_number", word |-> ScoreWords.match] >>

\* the end of the longest run of digits that starts at i (s[i] is a digit):
\* what a greedy \d+ takes
DigitRunEnd(s, i) ==
    CHOOSE e \in i..Len(s) :
        /\ (e = Len(s) \/ ~IsDigit(s[e + 1]))
        /\ \A k \in i..e : IsDigit(s[k])

\* the characters of the class [:\s]
IsSeparator(c) == c = ":" \/ IsSpace(c)

NoMatch == [found |-> FALSE, group1 |-> <<>>]

\* word[:\s]+(\d+) matched at offset i, ignoring case: the word, one or more
\* separators, then digits; group 1 is the whole run of digits
WordNumberAt(s, word, i) ==
    LET j == i + Len(word)
    IN  IF ~MatchesAtIgnoreCase(s, word, i) THEN NoMatch
        ELSE IF j > Len(s) \/ ~IsSeparator(s[j]) THEN NoMatch
        ELSE LET k == CHOOSE n \in j..(Len(s) + 1) :
                          /\ \A m \in j..(n - 1) : IsSeparator(s[m])
                          /\ (n = Len(s) + 1 \/ ~IsSeparator(s[n]))
             IN  IF k > Len(s) \/ ~IsDigit(s[k]) THEN NoMatch
                 ELSE [found |-> TRUE, group1 |-> SubSeq(s, k, DigitRunEnd(s, k))]

\* (\d+)(?:/100|%) matched at offset i: a run of digits followed by "/100" or "%"
NumberSuffixAt(s, i) ==
    IF i > Len(s) \/ ~IsDigit(s[i]) THEN NoMatch
    ELSE LET e == DigitRunEnd(s, i)
         IN  IF MatchesAt(s, ScoreWords.per100, e + 1) \/ MatchesAt(s, <<"%">>, e + 1)
             THEN [found |-> TRUE, group1 |-> SubSeq(s, i, e)]
             ELSE NoMatch

PatternAt(pattern, s, i) ==
    IF pattern.kind = "word_number" THEN WordNumberAt(s, pattern.word, i)
    ELSE NumberSuffixAt(s, i)

\* re.search(pattern, s, re.IGNORECASE): the leftmost match
RegexSearch(pattern, s) ==
    IF \A i \in 1..Len(s) : ~PatternAt(pattern, s, i).found THEN NoMatch
    ELSE PatternAt(pattern, s,
                   CHOOSE i \in 1..Len(s) :
                       /\ PatternAt(pattern, s, i).found
                       /\ \A j \in 1..(i - 1) : ~PatternAt(pattern, s, j).found)

\* int(digits) raises ValueError for more digits than sys.get_int_max_str_digits(),
\* 4300 on the Python 3.11 the repository runs on
IntRaises(digits) == Len(digits) > 4300

\* int(digits), for digits that int() accepts
RECURSIVE ParseInt(_)
ParseInt(digits) ==
    IF digits = <<>> THEN 0
    ELSE 10 * ParseInt(SubSeq(digits, 1, Len(digits) - 1)) + DigitValue(digits[Len(digits)])

\* a plausible slip: the captured number is returned as it is
Clamp_Missing(n) == n

\* min(100, max(0, n))
Clamp(n) == Min(100, Max(0, n))

\* random.randint(a, b): any integer of a..b
RandInt(a, b) == a..b

\* a plausible slip: "good" and "strong" are looked for first
SentimentBand_GoodFirst(s) ==
    IF Contains(Lower(s), ScoreWords.good) \/ Contains(Lower(s), ScoreWords.strong)
    THEN RandInt(70, 84)
    ELSE IF Contains(Lower(s), ScoreWords.excellent) \/ Contains(Lower(s), ScoreWords.perfect)
    THEN RandInt(85, 95)
    ELSE IF Contains(Lower(s), ScoreWords.fair) \/ Contains(Lower(s), ScoreWords.adequate)
    THEN RandInt(55, 69)
    ELSE RandInt(40, 70)

\* the sentiment bands of lines 241-248, in the order of the if chain
SentimentBand(s) ==
    IF Contains(Lower(s), ScoreWords.excellent) \/ Contains(Lower(s), ScoreWords.perfect)
    THEN RandInt(85, 95)
    ELSE IF Contains(Lower(s), ScoreWords.good) \/ Contains(Lower(s), ScoreWords.strong)
    THEN RandInt(70, 84)
    ELSE IF Contains(Lower(s), ScoreWords.fair) \/ Contains(Lower(s), ScoreWords.adequate)
    THEN RandInt(55, 69)
    ELSE RandInt(40, 70)

\* the index of the first pattern of the list that matches, 0 when none does
FirstMatchingPattern(s) ==
    IF \A k \in 1..Len(score_patterns) : ~RegexSearch(score_patterns[k], s).found THEN 0
    ELSE CHOOSE k \in 1..Len(score_patterns) :
             /\ RegexSearch(score_patterns[k], s).found
             /\ \A h \in 1..(k - 1) : ~RegexSearch(score_patterns[h], s).found

\* the fragments the analysis texts are assembled from
MaxFragments == 3

ScoreFragment ==
    [MatchScore82 |-> <<"M", "a", "t", "c", "h", " ", "s", "c", "o", "r", "e", ":", " ", "8",
           "2">>,
     N91of100 |-> <<"9", "1", "/", "1", "0", "0">>,
     ScoreTab7 |-> <<"S", "c", "o", "r", "e", ":", "\t", "7">>,
     ScoreNoNumber |-> <<"s", "c", "o", "r", "e", ":", " ">>,
     Zero |-> <<"0">>,
     One |-> <<"1">>,
     Space |-> <<" ">>,
     N45Percent |-> <<"4", "5", "%">>,
     Match30 |-> <<"m", "a", "t", "c", "h", " ", "3", "0">>,
     Excellent |-> <<"E", "x", "c", "e", "l", "l", "e", "n", "t">>,
     Good |-> <<"g", "o", "o", "d">>,
     Fair |-> <<"F", "a", "i", "r">>,
     Perfect |-> <<"P", "E", "R", "F", "E", "C", "T">>,
     Strong |-> <<"s", "t", "r", "o", "n", "g">>,
     Adequate |-> <<"A", "d", "e", "q", "u", "a", "t", "e">>]

ScoreFragments == {ScoreFragment[f] : f \in DOMAIN ScoreFragment}

\* a text whose number has one digit more than int() reads
LongNumberText == ScoreFragment.ScoreNoNumber \o [i \in 1..4301 |-> "9"]

AnalysisTexts ==
    {Concat(fs) : fs \in SeqsUpTo(ScoreFragments, MaxFragments)} \cup {LongNumberText}

ScoreStart ==
    /\ analysis \in AnalysisTexts
    /\ score_pc = "start"
    /\ score = -1
    /\ score_branch = 0

ScoreIdle ==
    /\ analysis = <<>>
    /\ score_pc = "idle"
    /\ score = -1
    /\ score_branch = 0

\* the for loop over score_patterns returns at the first pattern that matches,
\* or int() raises on its number and the ValueError leaves the function
ScoreByPattern ==
    /\ ScoreFrame
    /\ score_pc = "start"
    /\ FirstMatchingPattern(analysis) # 0
    /\ LET k == FirstMatchingPattern(analysis)
           digits == RegexSearch(score_patterns[k], analysis).group1
       IN  /\ score_branch' = k
           /\ IF IntRaises(digits)
              THEN score_pc' = "raised" /\ UNCHANGED score
              ELSE score_pc' = "done" /\ score' = Clamp(ParseInt(digits))
    /\ UNCHANGED analysis

\* no pattern matched: a random integer of the sentiment band
ScoreBySentiment ==
    /\ ScoreFrame
    /\ score_pc = "start"
    /\ FirstMatchingPattern(analysis) = 0
    /\ \E r \in SentimentBand(analysis) : score' = r
    /\ score_branch' = 4
    /\ score_pc' = "done"
    /\ UNCHANGED analysis

(***************************************************************************)
(* DocumentGenerator: create_resume, _parse_resume_content, _format_resume.*)
(***************************************************************************)
\* keyword literals of _parse_resume_content, _extract_name and _extract_contact_info
ResumeWords ==
    [summary |-> <<"s", "u", "m", "m", "a", "r", "y">>,
     skill |-> <<"s", "k", "i", "l", "l">>,
     experience |-> <<"e", "x", "p", "e", "r", "i", "e", "n", "c", "e">>,
     education |-> <<"e", "d", "u", "c", "a", "t", "i", "o", "n">>,
     project |-> <<"p", "r", "o", "j", "e", "c", "t">>,
     name |-> <<"n", "a", "m", "e">>,
     email |-> <<"e", "m", "a", "i", "l">>,
     phone |-> <<"p", "h", "o", "n", "e">>,
     linkedin |-> <<"l", "i", "n", "k", "e", "d", "i", "n">>,
     address |-> <<"a", "d", "d", "r", "e", "s", "s">>]

NL == <<"\n">>

\* the keys of the sections Dict filled from the completion
SectionNames == {"summary", "skills", "experience", "education", "projects"}

\* the if chain of lines 133-142 on a stripped line: the section the line
\* opens, "none" when the line holds no trigger keyword
SectionTrigger(line) ==
    IF Contains(Lower(line), ResumeWords.summary) THEN "summary"
    ELSE IF Contains(Lower(line), ResumeWords.skill) THEN "skills"
    ELSE IF Contains(Lower(line), ResumeWords.experience) THEN "experience"
    ELSE IF Contains(Lower(line), ResumeWords.education) THEN "education"
    ELSE IF Contains(Lower(line), ResumeWords.project) THEN "projects"
    ELSE "none"

\* a plausible slip: `=` for `+=`, the line replaces the section's value
AppendLine_Replaces(value, line) == line \o NL

\* a plausible slip: the line is appended with no newline after it
AppendLine_NoNewline(value, line) == value \o line

\* `sections[current_section] += line + '\n'`
AppendLine(value, line) == value \o line \o NL

\* `if not line: continue`: the current section after a blank line
AfterBlankLine(current_section) == current_section

\* the for loop of _parse_resume_content from line i on, with the current
\* section and the sections so far
RECURSIVE ParseResumeLines(_, _, _, _)
ParseResumeLines(lines, i, current_section, secs) ==
    IF i > Len(lines) THEN secs
    ELSE LET line == Strip(lines[i])
         IN  IF line = <<>>
             THEN ParseResumeLines(lines, i + 1, AfterBlankLine(current_section), secs)
             ELSE IF SectionTrigger(line) # "none"
             THEN ParseResumeLines(lines, i + 1, SectionTrigger(line), secs)
             ELSE IF current_section # "none" /\ ~StartsWith(line, <<"#">>)
             THEN ParseResumeLines(lines, i + 1, current_section,
                      [secs EXCEPT ![current_section] = AppendLine(@, line)])
             ELSE ParseResumeLines(lines, i + 1, current_section, secs)

\* _extract_name
ExtractName(info) ==
    LET lines == Split(info, "\n")
        hits == {i \in 1..Len(lines) :
                    Contains(Lower(lines[i]), ResumeWords.name) /\ Contains(lines[i], <<":">>)}
    IN  IF hits = {} THEN <<"Y", "o", "u", "r", " ", "N", "a", "m", "e">>
        ELSE Strip(Split(lines[CHOOSE i \in hits : \A j \in hits : i <= j], ":")[2])

\* the lines of a list that satisfy keep, in order
RECURSIVE ContactLines(_, _)
ContactLines(lines, i) ==
    IF i > Len(lines) THEN <<>>
    ELSE (IF \E w \in {ResumeWords.email, ResumeWords.phone, ResumeWords.linkedin,
                        ResumeWords.address} : Contains(Lower(lines[i]), w)
          THEN <<Strip(lines[i])>> ELSE <<>>) \o ContactLines(lines, i + 1)

\* _extract_contact_info
ExtractContactInfo(info) ==
    LET contact_lines == ContactLines(Split(info, "\n"), 1)
    IN  IF contact_lines = <<>> THEN <<"C", "o", "n", "t", "a", "c", "t", " ", "I", "n", "f", "o", "r", "m", "a", "t", "i", "o", "n">>
        ELSE Join(contact_lines, NL)

\* _parse_resume_content
ParseResumeContent(content, info) ==
    ParseResumeLines(Split(content, "\n"), 1, "none",
        [name |-> ExtractName(info), contact_info |-> ExtractContactInfo(info),
         summary |-> <<>>, skills |-> <<>>, experience |-> <<>>,
         education |-> <<>>, projects |-> <<>>])

\* _create_basic_resume_content
CreateBasicResumeContent(info, experience, skills) ==
    [name |-> ExtractName(info), contact_info |-> ExtractContactInfo(info),
     summary |-> <<"M", "o", "t", "i", "v", "a", "t", "e", "d", " ", "p", "r", "o", "f", "e", "s", "s", "i",
      "o", "n", "a", "l", " ", "w", "i", "t", "h", " ", "s", "t", "r", "o", "n", "g", " ", "s",
      "k", "i", "l", "l", "s", " ", "a", "n", "d", " ", "e", "x", "p", "e", "r", "i", "e", "n",
      "c", "e", " ", "s", "e", "e", "k", "i", "n", "g", " ", "n", "e", "w", " ", "o", "p", "p",
      "o", "r", "t", "u", "n", "i", "t", "i", "e", "s", ".">>,
     skills |-> skills,
     experience |-> experience,
     education |-> <<"E", "d", "u", "c", "a", "t", "i", "o", "n", " ", "d", "e", "t", "a", "i", "l", "s", " ",
      "t", "o", " ", "b", "e", " ", "a", "d", "d", "e", "d">>,
     projects |-> <<"N", "o", "t", "a", "b", "l", "e", " ", "p", "r", "o", "j", "e", "c", "t", "s", " ", "t",
      "o", " ", "b", "e", " ", "h", "i", "g", "h", "l", "i", "g", "h", "t", "e", "d">>]

\* datetime.now().strftime('%B %d, %Y'): one day's value
Today == <<"O", "c", "t", "o", "b", "e", "r", " ", "3", "0", ",", " ", "2", "0", "2", "6">>

\* _format_resume: the f-string, piece by piece
FormatResume(content) ==
    <<"#", " ", "U+1F4C4", " ", "P", "r", "o", "f", "e", "s", "s", "i", "o", "n", "a", "l", " ",
      "R", "e", "s", "u", "m", "e", "\n", "\n", "#", "#", " ">>
    \o content.name \o NL \o content.contact_info
    \o <<"\n", "\n", "-", "-", "-", "\n", "\n", "#", "#", " ", "U+1F3AF", " ", "P", "r", "o", "f",
      "e", "s", "s", "i", "o", "n", "a", "l", " ", "S", "u", "m", "m", "a", "r", "y", "\n">>
    \o content.summary
    \o <<"\n", "\n", "-", "-", "-", "\n", "\n", "#", "#", " ", "U+1F4AA", " ", "S", "k", "i", "l",
      "l", "s", "\n">>
    \o content.skills
    \o <<"\n", "\n", "-", "-", "-", "\n", "\n", "#", "#", " ", "U+1F4BC", " ", "P", "r", "o", "f",
      "e", "s", "s", "i", "o", "n", "a", "l", " ", "E", "x", "p", "e", "r", "i", "e", "n", "c",
      "e", "\n">>
    \o content.experience
    \o <<"\n", "\n", "-", "-", "-", "\n", "\n", "#", "#", " ", "U+1F393", " ", "E", "d", "u", "c",
      "a", "t", "i", "o", "n", "\n">>
    \o content.education
    \o <<"\n", "\n", "-", "-", "-", "\n", "\n", "#", "#", " ", "U+1F680", " ", "P", "r", "o", "j",
      "e", "c", "t", "s", "\n">>
    \o content.projects
    \o <<"\n", "\n", "-", "-", "-", "\n", "\n", "*", "R", "e", "s", "u", "m", "e", " ", "g", "e", "n",
      "e", "r", "a", "t", "e", "d", " ", "b", "y", " ", "L", "a", "u", "n", "c", "h", "P", "a",
      "d", ".", "A", "I", " ", "o", "n", " ">>
    \o Today
    \o <<"*", "\n">>

\* the fragments the completions of the resume prompt are assembled from
MaxResumeFragments == 4

ResumeFragment ==
    [Summary |-> <<"S", "u", "m", "m", "a", "r", "y", ":", "\n">>,
     GreatCandidate |-> <<"G", "r", "e", "a", "t", " ", "c", "a", "n", "d", "i", "d", "a",
           "t", "e", ".", "\n", "\n">>,
     Skills |-> <<"S", "k", "i", "l", "l", "s", ":", "\n">>,
     PythonSql |-> <<"P", "y", "t", "h", "o", "n", ",", " ", "S", "Q", "L">>,
     HashProfile |-> <<"#", " ", "P", "r", "o", "f", "i", "l", "e", "\n">>,
     PaddedLine |-> <<" ", " ", "L", "e", "d", " ", "a", " ", "t", "e", "a", "m", " ", "\n">>,
     HashExperience |-> <<"#", "#", " ", "W", "o", "r", "k", " ", "E", "X", "P", "E", "R",
           "I", "E", "N", "C", "E", "\n">>,
     ProjectTracker |-> <<"B", "u", "i", "l", "t", " ", "a", " ", "p", "r", "o", "j", "e",
           "c", "t", " ", "t", "r", "a", "c", "k", "e", "r", "\n">>]

ResumeFragments == {ResumeFragment[f] : f \in DOMAIN ResumeFragment}

ResumeCompletions == {Concat(fs) : fs \in SeqsUpTo(ResumeFragments, MaxResumeFragments)}

\* the personal_info, experience and skills arguments of create_resume
PersonalInfos == {<<>>, <<"N", "a", "m", "e", ":", " ", "A", "n", "n", " ", "S", "k", "i", "l", "l", "m", "a", "n",
      "\n", "E", "m", "a", "i", "l", ":", " ", "a", "n", "n", "@", "x", ".", "i", "o">>}
ArgSkills == <<"P", "y", "t", "h", "o", "n", ",", " ", "S", "Q", "L">>
ArgExperience == <<"2", " ", "y", "e", "a", "r", "s", " ", "a", "t", " ", "A", "c", "m", "e">>

NoSections ==
    [name |-> <<>>, contact_info |-> <<>>, summary |-> <<>>, skills |-> <<>>,
     experience |-> <<>>, education |-> <<>>, projects |-> <<>>]

ResumeStart ==
    /\ personal_info \in PersonalInfos
    /\ resume_answer \in {[ok |-> FALSE, text |-> <<>>]}
                         \cup {[ok |-> TRUE, text |-> c] : c \in ResumeCompletions}
    /\ resume_pc = "start"
    /\ sections = NoSections
    /\ rendered = <<>>
    /\ reparsed = NoSections

ResumeIdle ==
    /\ personal_info = <<>>
    /\ resume_answer = [ok |-> FALSE, text |-> <<>>]
    /\ resume_pc = "idle"
    /\ sections = NoSections
    /\ rendered = <<>>
    /\ reparsed = NoSections

\* _generate_resume_content: the call succeeds and the completion is parsed
GenerateResumeContent ==
    /\ ResumeFrame
    /\ resume_pc = "start"
    /\ resume_answer.ok
    /\ sections' = ParseResumeContent(resume_answer.text, personal_info)
    /\ resume_pc' = "parsed"
    /\ UNCHANGED <<personal_info, resume_answer, rendered, reparsed>>

\* _generate_resume_content: the call raises and the basic content is used
GenerateResumeFallback ==
    /\ ResumeFrame
    /\ resume_pc = "start"
    /\ ~resume_answer.ok
    /\ sections' = CreateBasicResumeContent(personal_info, ArgExperience, ArgSkills)
    /\ resume_pc' = "parsed"
    /\ UNCHANGED <<personal_info, resume_answer, rendered, reparsed>>

\* create_resume: `return self._format_resume(resume_content)`
RenderResume ==
    /\ ResumeFrame
    /\ resume_pc = "parsed"
    /\ rendered' = FormatResume(sections)
    /\ resume_pc' = "rendered"
    /\ UNCHANGED <<personal_info, resume_answer, sections, reparsed>>

\* the rendered resume is parsed again, with the same personal_info
ReparseRendered ==
    /\ ResumeFrame
    /\ resume_pc = "rendered"
    /\ reparsed' = ParseResumeContent(rendered, personal_info)
    /\ resume_pc' = "reparsed"
    /\ UNCHANGED <<personal_info, resume_answer, sections, rendered>>

(***************************************************************************)
(* CareerPlanner: suggest_paths, _parse_career_suggestions,                *)
(* _create_career_roadmaps, _format_career_suggestions.                    *)
(***************************************************************************)
\* A Python dict is a sequence of <<key, value>> pairs in insertion order:
\* assigning to a key that is present keeps its place.
DictHas(d, k) == \E i \in 1..Len(d) : d[i][1] = k

\* d.get(k, default)
DictGet(d, k, default) ==
    IF DictHas(d, k) THEN d[CHOOSE i \in 1..Len(d) : d[i][1] = k][2] ELSE default

\* d[k] = v
DictSet(d, k, v) ==
    IF DictHas(d, k)
    THEN [i \in 1..Len(d) |-> IF d[i][1] = k THEN <<k, v>> ELSE d[i]]
    ELSE Append(d, <<k, v>>)

UpperOf == [c \in {LowerChars[i] : i \in 1..26} |->
               UpperChars[CHOOSE i \in 1..26 : LowerChars[i] = c]]

\* str.upper() on one character
UpperChar(c) == IF c \in DOMAIN UpperOf THEN UpperOf[c] ELSE c

IsLetter(c) == c \in DOMAIN UpperOf \/ c \in DOMAIN LowerOf

\* s.title(): a letter that follows a non-letter is upper case, any other lower case
Title(s) ==
    [i \in 1..Len(s) |-> IF i = 1 \/ ~IsLetter(s[i - 1]) THEN UpperChar(s[i])
                         ELSE LowerChar(s[i])]

\* str(n) for a natural number
RECURSIVE IntToStr(_)
IntToStr(n) ==
    IF n < 10 THEN <<DigitChars[n + 1]>>
    ELSE IntToStr(n \div 10) \o <<DigitChars[(n % 10) + 1]>>

\* keyword literals of _parse_career_suggestions
CareerWords ==
    [path |-> <<"p", "a", "t", "h">>,
     career |-> <<"c", "a", "r", "e", "e", "r">>,
     role |-> <<"r", "o", "l", "e">>,
     industry |-> <<"i", "n", "d", "u", "s", "t", "r", "y">>,
     fit |-> <<"f", "i", "t">>,
     why |-> <<"w", "h", "y">>,
     salary |-> <<"s", "a", "l", "a", "r", "y">>,
     timeline |-> <<"t", "i", "m", "e", "l", "i", "n", "e">>]

\* the keys of a suggestion dict
CareerKey ==
    [title |-> <<"t", "i", "t", "l", "e">>,
     description |-> <<"d", "e", "s", "c", "r", "i", "p", "t", "i", "o", "n">>,
     industry |-> <<"i", "n", "d", "u", "s", "t", "r", "y">>,
     fit_reason |-> <<"f", "i", "t", "_", "r", "e", "a", "s", "o", "n">>,
     salary |-> <<"s", "a", "l", "a", "r", "y">>,
     timeline |-> <<"t", "i", "m", "e", "l", "i", "n", "e">>]

\* string literals of career_planner.py
CareerText ==
    [CustomCareerPath |-> <<"C", "u", "s", "t", "o", "m", " ", "C", "a", "r", "e", "e", "r",
           " ", "P", "a", "t", "h">>,
     Error |-> <<"E", "r", "r", "o", "r">>,
     UnableToGenerate |-> <<"U", "n", "a", "b", "l", "e", " ", "t", "o", " ", "g", "e", "n",
           "e", "r", "a", "t", "e", " ", "s", "u", "g", "g", "e", "s", "t", "i", "o", "n",
           "s", ".">>,
     UnableToAnalyze |-> <<"U", "n", "a", "b", "l", "e", " ", "t", "o", " ", "a", "n", "a",
           "l", "y", "z", "e", " ", "p", "r", "o", "f", "i", "l", "e", " ", "a", "t", " ",
           "t", "h", "i", "s", " ", "t", "i", "m", "e", ".">>,
     RoadmapUnavailable |-> <<"R", "o", "a", "d", "m", "a", "p", " ", "t", "e", "m", "p", "o",
           "r", "a", "r", "i", "l", "y", " ", "u", "n", "a", "v", "a", "i", "l", "a", "b",
           "l", "e", ".">>,
     CareerPath |-> <<"C", "a", "r", "e", "e", "r", " ", "P", "a", "t", "h", " ">>,
     ReportHeader |-> <<"#", "#", " ", "U+00F0", "U+0178", "U+0161", "U+20AC", " ", "P", "e",
           "r", "s", "o", "n", "a", "l", "i", "z", "e", "d", " ", "C", "a", "r", "e", "e",
           "r", " ", "P", "a", "t", "h", " ", "S", "u", "g", "g", "e", "s", "t", "i", "o",
           "n", "s", "\n", "\n">>,
     RoadmapHeadingPrefix |-> <<"#", "#", "#", "#", " ", "U+00F0", "U+0178", "U+201C",
           "U+2039", " ", "1", "2", "-", "M", "o", "n", "t", "h", " ", "R", "o", "a", "d",
           "m", "a", "p", " ", "f", "o", "r", " ">>,
     NextStepsHeading |-> <<"#", "#", " ", "U+00F0", "U+0178", "U+2019", "U+00A1", " ", "N",
           "e", "x", "t", " ", "S", "t", "e", "p", "s", "\n", "\n">>,
     NextStep1 |-> <<"1", ".", " ", "*", "*", "C", "h", "o", "o", "s", "e", " ", "Y", "o",
           "u", "r", " ", "P", "a", "t", "h", "*", "*", ":", " ", "R", "e", "v", "i", "e",
           "w", " ", "t", "h", "e", " ", "s", "u", "g", "g", "e", "s", "t", "i", "o", "n",
           "s", " ", "a", "n", "d", " ", "s", "e", "l", "e", "c", "t", " ", "t", "h", "e",
           " ", "o", "n", "e", " ", "t", "h", "a", "t", " ", "r", "e", "s", "o", "n", "a",
           "t", "e", "s", " ", "m", "o", "s", "t", " ", "w", "i", "t", "h", " ", "y", "o",
           "u", "r", " ", "g", "o", "a", "l", "s", "\n">>,
     NextStep2 |-> <<"2", ".", " ", "*", "*", "S", "t", "a", "r", "t", " ", "L", "e", "a",
           "r", "n", "i", "n", "g", "*", "*", ":", " ", "B", "e", "g", "i", "n", " ", "w",
           "i", "t", "h", " ", "t", "h", "e", " ", "f", "i", "r", "s", "t", " ", "q", "u",
           "a", "r", "t", "e", "r", "'", "s", " ", "s", "k", "i", "l", "l", " ", "d", "e",
           "v", "e", "l", "o", "p", "m", "e", "n", "t", " ", "r", "e", "c", "o", "m", "m",
           "e", "n", "d", "a", "t", "i", "o", "n", "s", "\n">>,
     NextStep3 |-> <<"3", ".", " ", "*", "*", "B", "u", "i", "l", "d", " ", "Y", "o", "u",
           "r", " ", "N", "e", "t", "w", "o", "r", "k", "*", "*", ":", " ", "C", "o", "n",
           "n", "e", "c", "t", " ", "w", "i", "t", "h", " ", "p", "r", "o", "f", "e", "s",
           "s", "i", "o", "n", "a", "l", "s", " ", "i", "n", " ", "y", "o", "u", "r", " ",
           "c", "h", "o", "s", "e", "n", " ", "f", "i", "e", "l", "d", "\n">>,
     NextStep4 |-> <<"4", ".", " ", "*", "*", "C", "r", "e", "a", "t", "e", " ", "a", " ",
           "P", "o", "r", "t", "f", "o", "l", "i", "o", "*", "*", ":", " ", "S", "t", "a",
           "r", "t", " ", "w", "o", "r", "k", "i", "n", "g", " ", "o", "n", " ", "p", "r",
           "o", "j", "e", "c", "t", "s", " ", "t", "h", "a", "t", " ", "d", "e", "m", "o",
           "n", "s", "t", "r", "a", "t", "e", " ", "y", "o", "u", "r", " ", "g", "r", "o",
           "w", "i", "n", "g", " ", "s", "k", "i", "l", "l", "s", "\n">>,
     NextStep5 |-> <<"5", ".", " ", "*", "*", "T", "r", "a", "c", "k", " ", "P", "r", "o",
           "g", "r", "e", "s", "s", "*", "*", ":", " ", "S", "e", "t", " ", "m", "o", "n",
           "t", "h", "l", "y", " ", "c", "h", "e", "c", "k", "-", "i", "n", "s", " ", "t",
           "o", " ", "r", "e", "v", "i", "e", "w", " ", "y", "o", "u", "r", " ", "p", "r",
           "o", "g", "r", "e", "s", "s", " ", "a", "n", "d", " ", "a", "d", "j", "u", "s",
           "t", " ", "t", "h", "e", " ", "p", "l", "a", "n", "\n", "\n">>,
     Closing |-> <<"R", "e", "m", "e", "m", "b", "e", "r", ":", " ", "C", "a", "r", "e", "e",
           "r", " ", "p", "a", "t", "h", "s", " ", "a", "r", "e", " ", "f", "l", "e", "x",
           "i", "b", "l", "e", ".", " ", "Y", "o", "u", " ", "c", "a", "n", " ", "p", "i",
           "v", "o", "t", " ", "a", "n", "d", " ", "a", "d", "j", "u", "s", "t", " ", "a",
           "s", " ", "y", "o", "u", " ", "l", "e", "a", "r", "n", " ", "a", "n", "d", " ",
           "g", "r", "o", "w", "!", " ", "U+00F0", "U+0178", "U+0152", "U+0178">>]

\* f'Career Path {i}'
CareerPathDefault(i) == CareerText.CareerPath \o IntToStr(i)

\* _parse_career_suggestions: what one non-blank (stripped) line does to current_suggestion
CareerLineUpdate(current, line) ==
    LET low == Lower(line)
    IN  IF /\ Contains(low, CareerWords.path) \/ Contains(low, CareerWords.career) \/ Contains(low, CareerWords.role)
           /\ Contains(line, <<":">>)
        THEN LET pieces == Split(line, ":")
             IN  DictSet(current, CareerKey.title, Strip(pieces[Len(pieces)]))
        ELSE IF Contains(low, CareerWords.industry) THEN DictSet(current, CareerKey.industry, line)
        ELSE IF Contains(low, CareerWords.fit) \/ Contains(low, CareerWords.why)
             THEN DictSet(current, CareerKey.fit_reason, line)
        ELSE IF Contains(low, CareerWords.salary) THEN DictSet(current, CareerKey.salary, line)
        ELSE IF Contains(low, CareerWords.timeline) THEN DictSet(current, CareerKey.timeline, line)
        ELSE current

\* _parse_career_suggestions: `if current_suggestion: suggestions.append(current_suggestion)`
CloseSuggestion(suggestions, current) ==
    IF current # <<>> THEN Append(suggestions, current) ELSE suggestions

\* _parse_career_suggestions: the for loop from line i on, and the append after it
RECURSIVE ParseCareerLines(_, _, _, _)
ParseCareerLines(lines, i, current, suggestions) ==
    IF i > Len(lines) THEN CloseSuggestion(suggestions, current)
    ELSE LET line == Strip(lines[i])
         IN  IF line = <<>>
             THEN ParseCareerLines(lines, i + 1, <<>>, CloseSuggestion(suggestions, current))
             ELSE ParseCareerLines(lines, i + 1, CareerLineUpdate(current, line), suggestions)

\* the entry returned when no suggestion was parsed, without the text
DefaultSuggestion_NoText(text) ==
    <<<<CareerKey.title, CareerText.CustomCareerPath>>, <<CareerKey.description, <<>>>>>>

\* [{"title": "Custom Career Path", "description": text}][0]
DefaultSuggestion(text) ==
    <<<<CareerKey.title, CareerText.CustomCareerPath>>, <<CareerKey.description, text>>>>

ParseCareerSuggestions(text) ==
    LET suggestions == ParseCareerLines(Split(text, "\n"), 1, <<>>, <<>>)
    IN  IF suggestions # <<>> THEN suggestions ELSE <<DefaultSuggestion(text)>>

\* _generate_career_suggestions: the list returned when the call raises
ErrorSuggestions ==
    <<<<<<CareerKey.title, CareerText.Error>>, <<CareerKey.description, CareerText.UnableToGenerate>>>>>>

\* the suggestions without the cap at three
TopSuggestions_NoCap(suggestions) == suggestions

\* suggestions[:3]
TopSuggestions(suggestions) == SubSeq(suggestions, 1, Min(3, Len(suggestions)))

\* suggestion.get('title', f'Career Path {i}') for the i-th suggestion (1-based)
TitleOf(suggestion, i) == DictGet(suggestion, CareerKey.title, CareerPathDefault(i))

\* _format_career_suggestions: the fixed text of the report, one definition per statement

\* The report is kept as the list of the strings that the statements
\* `result += ...` append, each with the statement it comes from.
Piece(stmt, text) == [stmt |-> stmt, text |-> text]

\* f"### {i}. {title}\n\n"
SectionHeading(i, title) ==
    Piece("section", <<"#", "#", "#", " ">> \o IntToStr(i) \o <<".", " ">> \o title \o <<"\n", "\n">>)

\* f"**{key.replace('_', ' ').title()}:** {value}\n\n"
FieldLine(key, value) ==
    Piece("field", <<"*", "*">> \o Title(Replace(key, <<"_">>, <<" ">>))
                   \o <<":", "*", "*", " ">> \o value \o <<"\n", "\n">>)

\* the fields of one suggestion: `if key != 'title' and value`
FieldLines(suggestion) ==
    LET shown == SelectSeq(suggestion, LAMBDA kv : kv[1] # CareerKey.title /\ kv[2] # <<>>)
    IN  [j \in 1..Len(shown) |-> FieldLine(shown[j][1], shown[j][2])]

\* the roadmap block of a title: `if title in roadmaps`
RoadmapBlock(title, roadmaps_) ==
    IF DictHas(roadmaps_, title)
    THEN <<Piece("roadmap_heading", CareerText.RoadmapHeadingPrefix \o title \o <<"\n", "\n">>),
           Piece("roadmap_text", DictGet(roadmaps_, title, <<>>) \o <<"\n", "\n">>)>>
    ELSE <<>>

\* the body of the loop over enumerate(suggestions[:3], 1), from position i on
RECURSIVE FormatSections(_, _, _)
FormatSections(top, roadmaps_, i) ==
    IF i > Len(top) THEN <<>>
    ELSE LET title == TitleOf(top[i], i)
         IN  <<SectionHeading(i, title)>>
             \o FieldLines(top[i])
             \o RoadmapBlock(title, roadmaps_)
             \o <<Piece("separator", <<"-", "-", "-", "\n", "\n">>)>>
             \o FormatSections(top, roadmaps_, i + 1)

NextStepsPieces ==
    <<Piece("next_steps_heading", CareerText.NextStepsHeading),
      Piece("next_step", CareerText.NextStep1),
      Piece("next_step", CareerText.NextStep2),
      Piece("next_step", CareerText.NextStep3),
      Piece("next_step", CareerText.NextStep4),
      Piece("next_step", CareerText.NextStep5),
      Piece("closing", CareerText.Closing)>>

\* _format_career_suggestions, as the list of the appended strings
FormatCareerSuggestions(suggestions, roadmaps_) ==
    <<Piece("header", CareerText.ReportHeader)>>
    \o FormatSections(TopSuggestions(suggestions), roadmaps_, 1)
    \o NextStepsPieces

\* the str that _format_career_suggestions returns
ReportText(pieces) == Concat([j \in 1..Len(pieces) |-> pieces[j].text])

\* the fragments the completions of the suggestions prompt are assembled from
MaxCareerFragments == 3

CareerFragment ==
    [PathDataAnalyst |-> <<"C", "a", "r", "e", "e", "r", " ", "P", "a", "t", "h", " ", "1",
           ":", " ", "D", "a", "t", "a", " ", "A", "n", "a", "l", "y", "s", "t", "\n">>,
     Industry |-> <<"I", "n", "d", "u", "s", "t", "r", "y", ":", " ", "H", "e", "a", "l", "t",
           "h", "c", "a", "r", "e", "\n">>,
     Blank |-> <<"\n">>,
     RoleNurse |-> <<" ", "R", "o", "l", "e", ":", " ", "N", "u", "r", "s", "e", " ", "\n",
           "\n">>,
     Advice |-> <<"J", "u", "s", "t", " ", "s", "o", "m", "e", " ", "a", "d", "v", "i", "c",
           "e", ".", "\n">>,
     TimelinePath |-> <<"T", "i", "m", "e", "l", "i", "n", "e", ":", " ", "2", " ", "y", "e",
           "a", "r", "s", " ", "o", "n", " ", "t", "h", "i", "s", " ", "p", "a", "t", "h", "\n">>,
     SalaryThenNurse |-> <<"S", "a", "l", "a", "r", "y", ":", " ", "5", "0", "k", "\n", "\n",
           "R", "o", "l", "e", ":", " ", "N", "u", "r", "s", "e", "\n", "\n">>,
     CareerSoFar |-> <<"M", "y", " ", "c", "a", "r", "e", "e", "r", " ", "s", "o", " ", "f",
           "a", "r", "\n">>]

CareerFragments == {CareerFragment[f] : f \in DOMAIN CareerFragment}

CareerCompletions == {Concat(fs) : fs \in SeqsUpTo(CareerFragments, MaxCareerFragments)}

\* what the endpoint may answer to the profile prompt and to the i-th roadmap prompt
ProfileCompletions == {<<"S", "t", "r", "o", "n", "g", " ", "a", "n", "a", "l", "y", "t", "i", "c", "a", "l", " ",
                          "p", "r", "o", "f", "i", "l", "e", ".">>}
RoadmapCompletions(i) == {<<"M", "o", "n", "t", "h", " ", "1", ":", " ", "p", "l", "a", "n", " ">> \o IntToStr(i)}

\* self.career_paths, in the order of the dicts; no method reads it
career_paths ==
    <<[field |-> "technology",
       paths |-> <<[path |-> "software_engineer",
                    titles |-> <<"Junior Developer", "Software Engineer", "Senior Engineer",
                                 "Tech Lead", "Engineering Manager">>],
                   [path |-> "data_scientist",
                    titles |-> <<"Data Analyst", "Data Scientist", "Senior Data Scientist",
                                 "Principal Data Scientist", "Chief Data Officer">>],
                   [path |-> "product_manager",
                    titles |-> <<"Associate PM", "Product Manager", "Senior PM",
                                 "Director of Product", "VP of Product">>]>>],
      [field |-> "business",
       paths |-> <<[path |-> "consultant",
                    titles |-> <<"Analyst", "Consultant", "Senior Consultant", "Manager",
                                 "Partner">>],
                   [path |-> "marketing",
                    titles |-> <<"Marketing Coordinator", "Marketing Manager",
                                 "Senior Manager", "Director", "VP Marketing">>],
                   [path |-> "finance",
                    titles |-> <<"Financial Analyst", "Senior Analyst", "Finance Manager",
                                 "Finance Director", "CFO">>]>>]>>

CareerStart ==
    /\ planner_paths = career_paths
    /\ career_answer \in {[ok |-> FALSE, text |-> <<>>]}
                         \cup {[ok |-> TRUE, text |-> c] : c \in CareerCompletions}
    /\ career_pc = "start"
    /\ profile_analysis = <<>>
    /\ career_suggestions = <<>>
    /\ roadmap_calls = <<>>
    /\ roadmaps = <<>>
    /\ report = <<>>

CareerIdle ==
    /\ planner_paths = <<>>
    /\ career_answer = [ok |-> FALSE, text |-> <<>>]
    /\ career_pc = "idle"
    /\ profile_analysis = <<>>
    /\ career_suggestions = <<>>
    /\ roadmap_calls = <<>>
    /\ roadmaps = <<>>
    /\ report = <<>>

\* _analyze_user_profile: the call returns
AnalyzeProfileReturns ==
    /\ CareerFrame
    /\ UNCHANGED planner_paths
    /\ career_pc = "start"
    /\ \E text \in ProfileCompletions : profile_analysis' = text
    /\ career_pc' = "analyzed"
    /\ UNCHANGED <<career_answer, career_suggestions, roadmap_calls, roadmaps, report>>

\* _analyze_user_profile: the call raises
AnalyzeProfileFails ==
    /\ CareerFrame
    /\ UNCHANGED planner_paths
    /\ career_pc = "start"
    /\ profile_analysis' = CareerText.UnableToAnalyze
    /\ career_pc' = "analyzed"
    /\ UNCHANGED <<career_answer, career_suggestions, roadmap_calls, roadmaps, report>>

\* _generate_career_suggestions: the call returns and the completion is parsed
GenerateCareerSuggestions ==
    /\ CareerFrame
    /\ UNCHANGED planner_paths
    /\ career_pc = "analyzed"
    /\ career_answer.ok
    /\ career_suggestions' = ParseCareerSuggestions(career_answer.text)
    /\ career_pc' = "roadmaps"
    /\ UNCHANGED <<career_answer, profile_analysis, roadmap_calls, roadmaps, report>>

\* _generate_career_suggestions: the call raises
GenerateCareerSuggestionsFails ==
    /\ CareerFrame
    /\ UNCHANGED planner_paths
    /\ career_pc = "analyzed"
    /\ ~career_answer.ok
    /\ career_suggestions' = ErrorSuggestions
    /\ career_pc' = "roadmaps"
    /\ UNCHANGED <<career_answer, profile_analysis, roadmap_calls, roadmaps, report>>

\* _create_career_roadmaps: one turn of the loop, the call returns
RoadmapReturns ==
    /\ CareerFrame
    /\ UNCHANGED planner_paths
    /\ career_pc = "roadmaps"
    /\ Len(roadmap_calls) < Len(TopSuggestions(career_suggestions))
    /\ LET i == Len(roadmap_calls) + 1
           title == TitleOf(career_suggestions[i], i)
       IN  \E text \in RoadmapCompletions(i) :
               /\ roadmap_calls' = Append(roadmap_calls,
                                          [title |-> title, ok |-> TRUE, text |-> text])
               /\ roadmaps' = DictSet(roadmaps, title, text)
    /\ UNCHANGED <<career_answer, career_pc, profile_analysis, career_suggestions, report>>

\* _create_career_roadmaps: one turn of the loop, the call raises
RoadmapFails ==
    /\ CareerFrame
    /\ UNCHANGED planner_paths
    /\ career_pc = "roadmaps"
    /\ Len(roadmap_calls) < Len(TopSuggestions(career_suggestions))
    /\ LET i == Len(roadmap_calls) + 1
           title == TitleOf(career_suggestions[i], i)
       IN  /\ roadmap_calls' = Append(roadmap_calls,
                                          [title |-> title, ok |-> FALSE, text |-> <<>>])
           /\ roadmaps' = DictSet(roadmaps, title, CareerText.RoadmapUnavailable)
    /\ UNCHANGED <<career_answer, career_pc, profile_analysis, career_suggestions, report>>

\* suggest_paths: `return self._format_career_suggestions(career_suggestions, roadmaps)`
FormatCareerReport ==
    /\ CareerFrame
    /\ UNCHANGED planner_paths
    /\ career_pc = "roadmaps"
    /\ Len(roadmap_calls) = Len(TopSuggestions(career_suggestions))
    /\ report' = FormatCareerSuggestions(career_suggestions, roadmaps)
    /\ career_pc' = "done"
    /\ UNCHANGED <<career_answer, profile_analysis, career_suggestions, roadmap_calls, roadmaps>>

(***************************************************************************)
(* SkillAnalyzer: analyze, _extract_skills, _analyze_skill_gaps,           *)
(* _generate_recommendations, _format_analysis_results.                    *)
(***************************************************************************)
\* self.skill_categories, in the order of the dict
skill_categories ==
    <<[category |-> <<"t", "e", "c", "h", "n", "i", "c", "a", "l">>,
       keywords |-> <<<<"p", "y", "t", "h", "o", "n">>,
                     <<"j", "a", "v", "a">>,
                     <<"j", "a", "v", "a", "s", "c", "r", "i", "p", "t">>,
                     <<"s", "q", "l">>,
                     <<"a", "w", "s">>,
                     <<"m", "a", "c", "h", "i", "n", "e", " ", "l", "e", "a", "r", "n", "i", "n", "g">>,
                     <<"d", "a", "t", "a", " ", "s", "c", "i", "e", "n", "c", "e">>>>],
      [category |-> <<"s", "o", "f", "t", "_", "s", "k", "i", "l", "l", "s">>,
       keywords |-> <<<<"c", "o", "m", "m", "u", "n", "i", "c", "a", "t", "i", "o", "n">>,
                     <<"l", "e", "a", "d", "e", "r", "s", "h", "i", "p">>,
                     <<"t", "e", "a", "m", "w", "o", "r", "k">>,
                     <<"p", "r", "o", "b", "l", "e", "m", " ", "s", "o", "l", "v", "i", "n", "g">>,
                     <<"c", "r", "e", "a", "t", "i", "v", "i", "t", "y">>>>],
      [category |-> <<"i", "n", "d", "u", "s", "t", "r", "y">>,
       keywords |-> <<<<"h", "e", "a", "l", "t", "h", "c", "a", "r", "e">>,
                     <<"f", "i", "n", "a", "n", "c", "e">>,
                     <<"t", "e", "c", "h", "n", "o", "l", "o", "g", "y">>,
                     <<"e", "d", "u", "c", "a", "t", "i", "o", "n">>,
                     <<"r", "e", "t", "a", "i", "l">>,
                     <<"m", "a", "n", "u", "f", "a", "c", "t", "u", "r", "i", "n", "g">>>>],
      [category |-> <<"t", "o", "o", "l", "s">>,
       keywords |-> <<<<"e", "x", "c", "e", "l">>,
                     <<"t", "a", "b", "l", "e", "a", "u">>,
                     <<"p", "o", "w", "e", "r", " ", "b", "i">>,
                     <<"j", "i", "r", "a">>,
                     <<"g", "i", "t">>,
                     <<"d", "o", "c", "k", "e", "r">>,
                     <<"k", "u", "b", "e", "r", "n", "e", "t", "e", "s">>>>]>>

\* the string literals of skill_analyzer.py, and the two completions the
\* endpoint answers the gap and the recommendation prompts with
SkillText ==
    [Header |->
         <<"#", "#", " ", "U+00F0", "U+0178", "U+017D", "U+00AF", " ", "S", "k", "i", "l", "l", " ",
           "A", "n", "a", "l", "y", "s", "i", "s", " ", "R", "e", "s", "u", "l", "t", "s",
           "\n", "\n">>,
     CurrentSkills |->
         <<"#", "#", "#", " ", "U+00F0", "U+0178", "U+2019", "U+00AA", " ", "Y", "o", "u", "r", " ",
           "C", "u", "r", "r", "e", "n", "t", " ", "S", "k", "i", "l", "l", "s", "\n", "\n">>,
     GapHeading |->
         <<"#", "#", "#", " ", "U+00F0", "U+0178", "U+201C", "U+0160", " ", "S", "k", "i", "l", "l",
           " ", "G", "a", "p", " ", "A", "n", "a", "l", "y", "s", "i", "s", "\n", "\n">>,
     RecHeading |->
         <<"#", "#", "#", " ", "U+00F0", "U+0178", "U+017D", "U+201C", " ", "L", "e", "a", "r", "n",
           "i", "n", "g", " ", "R", "e", "c", "o", "m", "m", "e", "n", "d", "a", "t", "i",
           "o", "n", "s", "\n", "\n">>,
     NextSteps |->
         <<"#", "#", "#", " ", "U+00E2", "U+0153", "U+2026", " ", "N", "e", "x", "t", " ", "S", "t",
           "e", "p", "s", "\n", "\n">>,
     Step1 |->
         <<"1", ".", " ", "R", "e", "v", "i", "e", "w", " ", "t", "h", "e", " ", "s", "k", "i", "l",
           "l", " ", "g", "a", "p", "s", " ", "a", "n", "d", " ", "p", "r", "i", "o", "r",
           "i", "t", "i", "z", "e", " ", "b", "a", "s", "e", "d", " ", "o", "n", " ", "y",
           "o", "u", "r", " ", "c", "a", "r", "e", "e", "r", " ", "g", "o", "a", "l", "s",
           "\n">>,
     Step2 |->
         <<"2", ".", " ", "S", "t", "a", "r", "t", " ", "w", "i", "t", "h", " ", "h", "i", "g", "h",
           "-", "p", "r", "i", "o", "r", "i", "t", "y", " ", "s", "k", "i", "l", "l", "s",
           " ", "t", "h", "a", "t", " ", "h", "a", "v", "e", " ", "i", "m", "m", "e", "d",
           "i", "a", "t", "e", " ", "i", "m", "p", "a", "c", "t", "\n">>,
     Step3 |->
         <<"3", ".", " ", "C", "r", "e", "a", "t", "e", " ", "a", " ", "l", "e", "a", "r", "n", "i",
           "n", "g", " ", "s", "c", "h", "e", "d", "u", "l", "e", " ", "a", "n", "d", " ",
           "t", "r", "a", "c", "k", " ", "y", "o", "u", "r", " ", "p", "r", "o", "g", "r",
           "e", "s", "s", "\n">>,
     Step4 |->
         <<"4", ".", " ", "B", "u", "i", "l", "d", " ", "p", "o", "r", "t", "f", "o", "l", "i", "o",
           " ", "p", "r", "o", "j", "e", "c", "t", "s", " ", "t", "o", " ", "d", "e", "m",
           "o", "n", "s", "t", "r", "a", "t", "e", " ", "n", "e", "w", " ", "s", "k", "i",
           "l", "l", "s", "\n">>,
     Step5 |->
         <<"5", ".", " ", "U", "p", "d", "a", "t", "e", " ", "y", "o", "u", "r", " ", "r", "e", "s",
           "u", "m", "e", " ", "a", "n", "d", " ", "L", "i", "n", "k", "e", "d", "I", "n",
           " ", "p", "r", "o", "f", "i", "l", "e", " ", "a", "s", " ", "y", "o", "u", " ",
           "d", "e", "v", "e", "l", "o", "p", " ", "n", "e", "w", " ", "s", "k", "i", "l",
           "l", "s", "\n">>,
     NoGapAnalysis |->
         <<"U", "n", "a", "b", "l", "e", " ", "t", "o", " ", "a", "n", "a", "l", "y", "z", "e", " ",
           "s", "k", "i", "l", "l", " ", "g", "a", "p", "s", " ", "a", "t", " ", "t", "h",
           "i", "s", " ", "t", "i", "m", "e", ".">>,
     NoRecommendations |->
         <<"U", "n", "a", "b", "l", "e", " ", "t", "o", " ", "g", "e", "n", "e", "r", "a", "t", "e",
           " ", "r", "e", "c", "o", "m", "m", "e", "n", "d", "a", "t", "i", "o", "n", "s",
           " ", "a", "t", " ", "t", "h", "i", "s", " ", "t", "i", "m", "e", ".">>,
     ErrorPrefix |->
         <<"E", "r", "r", "o", "r", " ", "a", "n", "a", "l", "y", "z", "i", "n", "g", " ", "s", "k",
           "i", "l", "l", "s", ":", " ">>,
     Unhashable |->
         <<"u", "n", "h", "a", "s", "h", "a", "b", "l", "e", " ", "t", "y", "p", "e", ":", " ", "'",
           "l", "i", "s", "t", "'">>,
     SequenceItem |->
         <<"s", "e", "q", "u", "e", "n", "c", "e", " ", "i", "t", "e", "m", " ">>,
     ExpectedStr |->
         <<":", " ", "e", "x", "p", "e", "c", "t", "e", "d", " ", "s", "t", "r", " ", "i", "n", "s",
           "t", "a", "n", "c", "e", ",", " ", "i", "n", "t", " ", "f", "o", "u", "n", "d">>,
     GapCompletion |->
         <<"L", "e", "a", "r", "n", " ", "D", "o", "c", "k", "e", "r", " ", "f", "i", "r", "s", "t",
           ".">>,
     RecCompletion |->
         <<"T", "a", "k", "e", " ", "a", " ", "c", "o", "u", "r", "s", "e", ".">>]

\* A skill is a JSON value: a string, a number or a nested list.
StrItem(text) == [type |-> "str", text |-> text]
NumberItem == [type |-> "int", text |-> <<"7">>]
NestedItem == [type |-> "list", text |-> <<>>]

\* The answer to the extraction prompt, by what lines 101-113 make of it:
\* the call raises; the text holds no {...}; json.loads raises on it; or it
\* parses to an object, given as the values of the four keys read with
\* skills_data.get(key, []) and the set of the keys whose value is null.
NoSkillData == <<<<>>, <<>>, <<>>, <<>>>>
ExtractionAnswers ==
    {[ok |-> FALSE, json |-> "none", data |-> NoSkillData],
     [ok |-> TRUE, json |-> "none", data |-> NoSkillData],
     [ok |-> TRUE, json |-> "invalid", data |-> NoSkillData],
     [ok |-> TRUE, json |-> "object",
      data |-> <<<<StrItem(<<"R", "u", "s", "t">>), StrItem(<<"P", "y", "t", "h", "o", "n">>)>>,
                 <<>>, <<>>, <<>>>>,
      nulls |-> {}],
     [ok |-> TRUE, json |-> "object",
      data |-> <<<<StrItem(<<"G", "o">>)>>, <<>>, <<>>, <<StrItem(<<"V", "i", "m">>)>>>>,
      nulls |-> {2}],
     [ok |-> TRUE, json |-> "object", data |-> <<<<>>, <<NumberItem>>, <<>>, <<>>>>,
      nulls |-> {}],
     [ok |-> TRUE, json |-> "object", data |-> <<<<>>, <<>>, <<NestedItem>>, <<>>>>,
      nulls |-> {}]}

\* _extract_skills_with_bedrock: the dict it returns, as the four lists
BedrockSkills(answer) ==
    IF answer.ok /\ answer.json = "object" THEN answer.data ELSE NoSkillData

\* the categories for which it returns None
BedrockNulls(answer) ==
    IF answer.ok /\ answer.json = "object" THEN answer.nulls ELSE {}

\* _extract_skills, lines 53-56: the keywords found in the text, title-cased
RECURSIVE KeywordSkills(_, _, _)
KeywordSkills(text_lower, keywords, k) ==
    IF k > Len(keywords) THEN <<>>
    ELSE (IF Contains(text_lower, keywords[k]) THEN <<StrItem(Title(keywords[k]))>> ELSE <<>>)
         \o KeywordSkills(text_lower, keywords, k + 1)

\* _extract_skills, lines 50-65: one list per category of
\* self.skill_categories, the keywords of the category found in the text;
\* the lists of the endpoint are appended category by category;
\* extend(None) raises, which ends the loop
ExtendedSkills(text, answer) ==
    LET bedrock == BedrockSkills(answer)
    IN  [c \in 1..Len(analyzer_categories) |->
            KeywordSkills(Lower(text), analyzer_categories[c].keywords, 1)
            \o (IF \A b \in 1..c : b \notin BedrockNulls(answer) THEN bedrock[c] ELSE <<>>)]

\* the elements of a list
Range(list) == {list[k] : k \in 1..Len(list)}

\* list(set(x)): the distinct elements in an order the build decides
ListOfSet(list) ==
    {p \in [1..Cardinality(Range(list)) -> Range(list)] :
        \A a, b \in DOMAIN p : a # b => p[a] # p[b]}

\* set(x) raises TypeError when an element is not hashable
Hashable(list) == \A k \in 1..Len(list) : list[k].type # "list"

\* ', '.join(x) raises TypeError at the first element that is not a str
Joinable(list) == \A k \in 1..Len(list) : list[k].type = "str"
FirstNotStr(list) == CHOOSE k \in 1..Len(list) :
                         list[k].type # "str" /\ \A j \in 1..(k - 1) : list[j].type = "str"
JoinError(list) ==
    SkillText.SequenceItem \o IntToStr(FirstNotStr(list) - 1) \o SkillText.ExpectedStr

\* ', '.join(skill_list)
JoinSkills(list) == Join([k \in 1..Len(list) |-> list[k].text], <<",", " ">>)

\* analyze, line 45: f"Error analyzing skills: {str(e)}"
SkillError(message) == [kind |-> "text", pieces |-> <<Piece("error", SkillText.ErrorPrefix \o message)>>]

\* _format_analysis_results, lines 206-208, from category c on
RECURSIVE SkillLines(_, _)
SkillLines(skills, c) ==
    IF c > Len(skills) THEN <<>>
    ELSE (IF skills[c] # <<>>
          THEN <<Piece("skills", <<"*", "*">>
                         \o Title(Replace(skill_categories[c].category, <<"_">>, <<" ">>))
                         \o <<":", "*", "*", " ">> \o JoinSkills(skills[c]) \o <<"\n", "\n">>)>>
          ELSE <<>>)
         \o SkillLines(skills, c + 1)

\* _format_analysis_results, as the list of the appended strings
FormatAnalysisResults(skills, gap, recs) ==
    <<Piece("header", SkillText.Header), Piece("skills_heading", SkillText.CurrentSkills)>>
    \o SkillLines(skills, 1)
    \o <<Piece("gap_heading", SkillText.GapHeading),
         Piece("gap_analysis", gap \o <<"\n", "\n">>),
         Piece("recommendations_heading", SkillText.RecHeading),
         Piece("recommendations", recs \o <<"\n", "\n">>),
         Piece("next_steps_heading", SkillText.NextSteps),
         Piece("next_step", SkillText.Step1),
         Piece("next_step", SkillText.Step2),
         Piece("next_step", SkillText.Step3),
         Piece("next_step", SkillText.Step4),
         Piece("next_step", SkillText.Step5)>>

\* user_input and resume_text of analyze
SkillInputs == {<<>>, <<"I", " ", "u", "s", "e", " ", "P", "y", "t", "h", "o", "n", " ", "a", "n", "d", " ", "J",
                  "a", "v", "a", "S", "c", "r", "i", "p", "t">>,
                <<"L", "e", "a", "d", "e", "r", "s", "h", "i", "p", ",", " ", "g", "i", "t">>}
ResumeTexts == {<<>>, <<" ", "S", "Q", "L", " ", "a", "n", "d", " ", "G", "o", "\n">>}

NoSkillResult == [kind |-> "none", pieces |-> <<>>]

SkillStart ==
    /\ analyzer_categories = skill_categories
    /\ user_input \in SkillInputs
    /\ resume_text \in ResumeTexts
    /\ skill_answers \in [extract : ExtractionAnswers, gap : BOOLEAN, recs : BOOLEAN]
    /\ skill_pc = "start"
    /\ extracted_skills = NoSkillData
    /\ gap_analysis = <<>>
    /\ recommendations = <<>>
    /\ skill_result = NoSkillResult

SkillIdle ==
    /\ analyzer_categories = <<>>
    /\ user_input = <<>>
    /\ resume_text = <<>>
    /\ skill_answers = [extract |-> [ok |-> FALSE, json |-> "none", data |-> NoSkillData,
                                     nulls |-> {}],
                        gap |-> FALSE, recs |-> FALSE]
    /\ skill_pc = "idle"
    /\ extracted_skills = NoSkillData
    /\ gap_analysis = <<>>
    /\ recommendations = <<>>
    /\ skill_result = NoSkillResult

\* combined_text = f"{user_input}\n\n{resume_text}".strip()
CombinedText == Strip(user_input \o <<"\n", "\n">> \o resume_text)

\* _extract_skills returns: every list is hashable, the order of each is the set's
ExtractSkills ==
    /\ SkillFrame
    /\ UNCHANGED analyzer_categories
    /\ skill_pc = "start"
    /\ LET extended == ExtendedSkills(CombinedText, skill_answers.extract)
       IN  /\ \A c \in 1..Len(extended) : Hashable(extended[c])
           /\ \E technical \in ListOfSet(extended[1]), soft_skills \in ListOfSet(extended[2]),
                 industry \in ListOfSet(extended[3]), tools \in ListOfSet(extended[4]) :
                  extracted_skills' = <<technical, soft_skills, industry, tools>>
    /\ skill_pc' = "extracted"
    /\ UNCHANGED <<user_input, resume_text, skill_answers, gap_analysis, recommendations,
                   skill_result>>

\* _extract_skills raises at set(...): analyze returns the error string
ExtractSkillsRaises ==
    /\ SkillFrame
    /\ UNCHANGED analyzer_categories
    /\ skill_pc = "start"
    /\ LET extended == ExtendedSkills(CombinedText, skill_answers.extract)
       IN  \E c \in 1..Len(extended) : ~Hashable(extended[c])
    /\ skill_result' = SkillError(SkillText.Unhashable)
    /\ skill_pc' = "done"
    /\ UNCHANGED <<user_input, resume_text, skill_answers, extracted_skills, gap_analysis,
                   recommendations>>

\* _analyze_skill_gaps raises while it builds the prompt (lines 125-128):
\* analyze returns the error string
AnalyzeSkillGapsRaises ==
    /\ SkillFrame
    /\ UNCHANGED analyzer_categories
    /\ skill_pc = "extracted"
    /\ \E c \in 1..Len(extracted_skills) : ~Joinable(extracted_skills[c])
    /\ LET c == CHOOSE c \in 1..Len(extracted_skills) :
                    /\ ~Joinable(extracted_skills[c])
                    /\ \A b \in 1..(c - 1) : Joinable(extracted_skills[b])
       IN  skill_result' = SkillError(JoinError(extracted_skills[c]))
    /\ skill_pc' = "done"
    /\ UNCHANGED <<user_input, resume_text, skill_answers, extracted_skills, gap_analysis,
                   recommendations>>

\* _analyze_skill_gaps: the call returns
AnalyzeSkillGapsReturns ==
    /\ SkillFrame
    /\ UNCHANGED analyzer_categories
    /\ skill_pc = "extracted"
    /\ \A c \in 1..Len(extracted_skills) : Joinable(extracted_skills[c])
    /\ skill_answers.gap
    /\ gap_analysis' = SkillText.GapCompletion
    /\ skill_pc' = "gaps"
    /\ UNCHANGED <<user_input, resume_text, skill_answers, extracted_skills, recommendations,
                   skill_result>>

\* _analyze_skill_gaps: the call raises
AnalyzeSkillGapsFails ==
    /\ SkillFrame
    /\ UNCHANGED analyzer_categories
    /\ skill_pc = "extracted"
    /\ \A c \in 1..Len(extracted_skills) : Joinable(extracted_skills[c])
    /\ ~skill_answers.gap
    /\ gap_analysis' = SkillText.NoGapAnalysis
    /\ skill_pc' = "gaps"
    /\ UNCHANGED <<user_input, resume_text, skill_answers, extracted_skills, recommendations,
                   skill_result>>

\* _generate_recommendations: the call returns
GenerateRecommendationsReturns ==
    /\ SkillFrame
    /\ UNCHANGED analyzer_categories
    /\ skill_pc = "gaps"
    /\ skill_answers.recs
    /\ recommendations' = SkillText.RecCompletion
    /\ skill_pc' = "recommended"
    /\ UNCHANGED <<user_input, resume_text, skill_answers, extracted_skills, gap_analysis,
                   skill_result>>

\* _generate_recommendations: the call raises
GenerateRecommendationsFails ==
    /\ SkillFrame
    /\ UNCHANGED analyzer_categories
    /\ skill_pc = "gaps"
    /\ ~skill_answers.recs
    /\ recommendations' = SkillText.NoRecommendations
    /\ skill_pc' = "recommended"
    /\ UNCHANGED <<user_input, resume_text, skill_answers, extracted_skills, gap_analysis,
                   skill_result>>

\* analyze: `return self._format_analysis_results(...)`
FormatSkillReport ==
    /\ SkillFrame
    /\ UNCHANGED analyzer_categories
    /\ skill_pc = "recommended"
    /\ skill_result' = [kind |-> "text",
                        pieces |-> FormatAnalysisResults(extracted_skills, gap_analysis,
                                                         recommendations)]
    /\ skill_pc' = "done"
    /\ UNCHANGED <<user_input, resume_text, skill_answers, extracted_skills, gap_analysis,
                   recommendations>>

(***************************************************************************)
(* DocumentGenerator: create_cover_letter.                                 *)
(***************************************************************************)
\* the string literals of _generate_cover_letter_content and _format_cover_letter,
\* and the completion the endpoint answers the prompt with
CoverText ==
    [Unable |->
         <<"U", "n", "a", "b", "l", "e", " ", "t", "o", " ", "g", "e", "n", "e", "r", "a", "t", "e",
           " ", "c", "o", "v", "e", "r", " ", "l", "e", "t", "t", "e", "r", " ", "a", "t",
           " ", "t", "h", "i", "s", " ", "t", "i", "m", "e", ".">>,
     Heading |->
         <<"#", " ", "U+1F4DD", " ", "C", "o", "v", "e", "r", " ", "L", "e", "t", "t", "e", "r",
           "\n", "\n">>,
     Footer |->
         <<"\n", "\n", "-", "-", "-", "\n", "\n", "*", "C", "o", "v", "e", "r", " ", "l", "e", "t",
           "t", "e", "r", " ", "g", "e", "n", "e", "r", "a", "t", "e", "d", " ", "b", "y",
           " ", "L", "a", "u", "n", "c", "h", "P", "a", "d", ".", "A", "I", " ", "o", "n",
           " ">>,
     Tips |->
         <<"*", "\n", "\n", "#", "#", " ", "U+1F4A1", " ", "T", "i", "p", "s", " ", "f", "o", "r",
           " ", "S", "u", "c", "c", "e", "s", "s", ":", "\n", "-", " ", "C", "u", "s", "t",
           "o", "m", "i", "z", "e", " ", "t", "h", "e", " ", "c", "o", "m", "p", "a", "n",
           "y", " ", "n", "a", "m", "e", " ", "a", "n", "d", " ", "s", "p", "e", "c", "i",
           "f", "i", "c", " ", "r", "o", "l", "e", " ", "d", "e", "t", "a", "i", "l", "s",
           "\n", "-", " ", "A", "d", "d", " ", "s", "p", "e", "c", "i", "f", "i", "c", " ",
           "e", "x", "a", "m", "p", "l", "e", "s", " ", "f", "r", "o", "m", " ", "y", "o",
           "u", "r", " ", "e", "x", "p", "e", "r", "i", "e", "n", "c", "e", "\n", "-", " ",
           "P", "r", "o", "o", "f", "r", "e", "a", "d", " ", "f", "o", "r", " ", "g", "r",
           "a", "m", "m", "a", "r", " ", "a", "n", "d", " ", "s", "p", "e", "l", "l", "i",
           "n", "g", "\n", "-", " ", "K", "e", "e", "p", " ", "i", "t", " ", "t", "o", " ",
           "o", "n", "e", " ", "p", "a", "g", "e", " ", "w", "h", "e", "n", " ", "p", "r",
           "i", "n", "t", "e", "d", "\n", "-", " ", "S", "a", "v", "e", " ", "a", "s", " ",
           "P", "D", "F", " ", "f", "o", "r", " ", "a", "p", "p", "l", "i", "c", "a", "t",
           "i", "o", "n", "s", "\n">>,
     Completion |->
         <<"D", "e", "a", "r", " ", "H", "i", "r", "i", "n", "g", " ", "M", "a", "n", "a", "g", "e",
           "r", ",", "\n", "I", " ", "a", "m", " ", "e", "x", "c", "i", "t", "e", "d", " ",
           "t", "o", " ", "a", "p", "p", "l", "y", ".">>]

\* _format_cover_letter
FormatCoverLetter(content) ==
    CoverText.Heading \o content \o CoverText.Footer \o Today \o CoverText.Tips

CoverStart ==
    /\ cover_answer \in {[ok |-> FALSE, text |-> <<>>],
                         [ok |-> TRUE, text |-> <<>>],
                         [ok |-> TRUE, text |-> CoverText.Completion]}
    /\ cover_pc = "start"
    /\ cover_letter = <<>>
    /\ cover_result = NoReply

CoverIdle ==
    /\ cover_answer = [ok |-> FALSE, text |-> <<>>]
    /\ cover_pc = "idle"
    /\ cover_letter = <<>>
    /\ cover_result = NoReply

\* _generate_cover_letter_content: the call returns
GenerateCoverLetterReturns ==
    /\ CoverFrame
    /\ cover_pc = "start"
    /\ cover_answer.ok
    /\ cover_letter' = cover_answer.text
    /\ cover_pc' = "generated"
    /\ UNCHANGED <<cover_answer, cover_result>>

\* _generate_cover_letter_content: the call raises
GenerateCoverLetterFails ==
    /\ CoverFrame
    /\ cover_pc = "start"
    /\ ~cover_answer.ok
    /\ cover_letter' = CoverText.Unable
    /\ cover_pc' = "generated"
    /\ UNCHANGED <<cover_answer, cover_result>>

\* create_cover_letter: `return self._format_cover_letter(cover_letter)`
FormatCoverLetterReturns ==
    /\ CoverFrame
    /\ cover_pc = "generated"
    /\ cover_result' = [kind |-> "text", text |-> FormatCoverLetter(cover_letter)]
    /\ cover_pc' = "done"
    /\ UNCHANGED <<cover_answer, cover_letter>>


(***************************************************************************)
(* JobSearcher: search, _filter_jobs, _generate_additional_jobs,           *)
(* _generate_job_requirements, _analyze_job_matches,                       *)
(* _get_job_match_analysis, _format_job_results.                           *)
(***************************************************************************)
\* self.job_database
job_database ==
    <<[ title |->
           <<"S", "e", "n", "i", "o", "r", " ", "D", "a", "t", "a", " ", "S", "c", "i", "e", "n", "t",
             "i", "s", "t">>,
        company |->
           <<"T", "e", "c", "h", "C", "o", "r", "p", " ", "I", "n", "c", ".">>,
        location |->
           <<"S", "a", "n", " ", "F", "r", "a", "n", "c", "i", "s", "c", "o", ",", " ", "C", "A">>,
        salary |->
           <<"$", "1", "2", "0", ",", "0", "0", "0", " ", "-", " ", "$", "1", "6", "0", ",", "0", "0",
             "0">>,
        description |->
           <<"W", "e", " ", "a", "r", "e", " ", "s", "e", "e", "k", "i", "n", "g", " ", "a", "n", " ",
             "e", "x", "p", "e", "r", "i", "e", "n", "c", "e", "d", " ", "D", "a", "t",
             "a", " ", "S", "c", "i", "e", "n", "t", "i", "s", "t", " ", "t", "o", " ",
             "j", "o", "i", "n", " ", "o", "u", "r", " ", "M", "L", " ", "t", "e", "a",
             "m", ".", " ", "Y", "o", "u", " ", "w", "i", "l", "l", " ", "w", "o", "r",
             "k", " ", "o", "n", " ", "c", "u", "t", "t", "i", "n", "g", "-", "e", "d",
             "g", "e", " ", "p", "r", "o", "j", "e", "c", "t", "s", " ", "i", "n", "v",
             "o", "l", "v", "i", "n", "g", " ", "p", "r", "e", "d", "i", "c", "t", "i",
             "v", "e", " ", "m", "o", "d", "e", "l", "i", "n", "g", ",", " ", "m", "a",
             "c", "h", "i", "n", "e", " ", "l", "e", "a", "r", "n", "i", "n", "g", " ",
             "a", "l", "g", "o", "r", "i", "t", "h", "m", "s", ",", " ", "a", "n", "d",
             " ", "d", "a", "t", "a", " ", "v", "i", "s", "u", "a", "l", "i", "z", "a",
             "t", "i", "o", "n", ".">>,
        requirements |->
           <<<<"P", "y", "t", "h", "o", "n">>,
             <<"M", "a", "c", "h", "i", "n", "e", " ", "L", "e", "a", "r", "n", "i", "n", "g">>,
             <<"S", "Q", "L">>,
             <<"A", "W", "S">>,
             <<"S", "t", "a", "t", "i", "s", "t", "i", "c", "s">>>>,
        posted_date |->
           <<"2", "0", "2", "4", "-", "0", "1", "-", "1", "5">>,
        company_size |->
           <<"1", "0", "0", "0", "-", "5", "0", "0", "0", " ", "e", "m", "p", "l", "o", "y", "e", "e",
             "s">>,
        industry |->
           <<"T", "e", "c", "h", "n", "o", "l", "o", "g", "y">>],
      [ title |->
           <<"S", "o", "f", "t", "w", "a", "r", "e", " ", "E", "n", "g", "i", "n", "e", "e", "r">>,
        company |->
           <<"S", "t", "a", "r", "t", "u", "p", "X">>,
        location |->
           <<"R", "e", "m", "o", "t", "e">>,
        salary |->
           <<"$", "9", "0", ",", "0", "0", "0", " ", "-", " ", "$", "1", "3", "0", ",", "0", "0", "0">>,
        description |->
           <<"J", "o", "i", "n", " ", "o", "u", "r", " ", "f", "a", "s", "t", "-", "g", "r", "o", "w",
             "i", "n", "g", " ", "s", "t", "a", "r", "t", "u", "p", " ", "a", "s", " ",
             "a", " ", "S", "o", "f", "t", "w", "a", "r", "e", " ", "E", "n", "g", "i",
             "n", "e", "e", "r", ".", " ", "Y", "o", "u", " ", "w", "i", "l", "l", " ",
             "b", "u", "i", "l", "d", " ", "s", "c", "a", "l", "a", "b", "l", "e", " ",
             "w", "e", "b", " ", "a", "p", "p", "l", "i", "c", "a", "t", "i", "o", "n",
             "s", " ", "a", "n", "d", " ", "w", "o", "r", "k", " ", "w", "i", "t", "h",
             " ", "m", "o", "d", "e", "r", "n", " ", "t", "e", "c", "h", "n", "o", "l",
             "o", "g", "i", "e", "s", " ", "i", "n", " ", "a", "n", " ", "a", "g", "i",
             "l", "e", " ", "e", "n", "v", "i", "r", "o", "n", "m", "e", "n", "t", ".">>,
        requirements |->
           <<<<"J", "a", "v", "a", "S", "c", "r", "i", "p", "t">>,
             <<"R", "e", "a", "c", "t">>,
             <<"N", "o", "d", "e", ".", "j", "s">>,
             <<"M", "o", "n", "g", "o", "D", "B">>,
             <<"G", "i", "t">>>>,
        posted_date |->
           <<"2", "0", "2", "4", "-", "0", "1", "-", "1", "4">>,
        company_size |->
           <<"5", "0", "-", "2", "0", "0", " ", "e", "m", "p", "l", "o", "y", "e", "e", "s">>,
        industry |->
           <<"T", "e", "c", "h", "n", "o", "l", "o", "g", "y">>],
      [ title |->
           <<"P", "r", "o", "d", "u", "c", "t", " ", "M", "a", "n", "a", "g", "e", "r">>,
        company |->
           <<"M", "e", "g", "a", "C", "o", "r", "p">>,
        location |->
           <<"N", "e", "w", " ", "Y", "o", "r", "k", ",", " ", "N", "Y">>,
        salary |->
           <<"$", "1", "1", "0", ",", "0", "0", "0", " ", "-", " ", "$", "1", "4", "0", ",", "0", "0",
             "0">>,
        description |->
           <<"L", "e", "a", "d", " ", "p", "r", "o", "d", "u", "c", "t", " ", "s", "t", "r", "a", "t",
             "e", "g", "y", " ", "a", "n", "d", " ", "d", "e", "v", "e", "l", "o", "p",
             "m", "e", "n", "t", " ", "f", "o", "r", " ", "o", "u", "r", " ", "f", "l",
             "a", "g", "s", "h", "i", "p", " ", "p", "r", "o", "d", "u", "c", "t", ".",
             " ", "Y", "o", "u", " ", "w", "i", "l", "l", " ", "w", "o", "r", "k", " ",
             "c", "r", "o", "s", "s", "-", "f", "u", "n", "c", "t", "i", "o", "n", "a",
             "l", "l", "y", " ", "w", "i", "t", "h", " ", "e", "n", "g", "i", "n", "e",
             "e", "r", "i", "n", "g", ",", " ", "d", "e", "s", "i", "g", "n", ",", " ",
             "a", "n", "d", " ", "b", "u", "s", "i", "n", "e", "s", "s", " ", "t", "e",
             "a", "m", "s", ".">>,
        requirements |->
           <<<<"P", "r", "o", "d", "u", "c", "t", " ", "M", "a", "n", "a", "g", "e", "m", "e", "n", "t">>,
             <<"A", "g", "i", "l", "e">>,
             <<"A", "n", "a", "l", "y", "t", "i", "c", "s">>,
             <<"L", "e", "a", "d", "e", "r", "s", "h", "i", "p">>,
             <<"S", "Q", "L">>>>,
        posted_date |->
           <<"2", "0", "2", "4", "-", "0", "1", "-", "1", "3">>,
        company_size |->
           <<"5", "0", "0", "0", "+", " ", "e", "m", "p", "l", "o", "y", "e", "e", "s">>,
        industry |->
           <<"T", "e", "c", "h", "n", "o", "l", "o", "g", "y">>],
      [ title |->
           <<"M", "a", "r", "k", "e", "t", "i", "n", "g", " ", "M", "a", "n", "a", "g", "e", "r">>,
        company |->
           <<"B", "r", "a", "n", "d", "C", "o">>,
        location |->
           <<"L", "o", "s", " ", "A", "n", "g", "e", "l", "e", "s", ",", " ", "C", "A">>,
        salary |->
           <<"$", "7", "5", ",", "0", "0", "0", " ", "-", " ", "$", "9", "5", ",", "0", "0", "0">>,
        description |->
           <<"D", "r", "i", "v", "e", " ", "m", "a", "r", "k", "e", "t", "i", "n", "g", " ", "c", "a",
             "m", "p", "a", "i", "g", "n", "s", " ", "a", "n", "d", " ", "b", "r", "a",
             "n", "d", " ", "s", "t", "r", "a", "t", "e", "g", "y", ".", " ", "E", "x",
             "p", "e", "r", "i", "e", "n", "c", "e", " ", "w", "i", "t", "h", " ", "d",
             "i", "g", "i", "t", "a", "l", " ", "m", "a", "r", "k", "e", "t", "i", "n",
             "g", ",", " ", "c", "o", "n", "t", "e", "n", "t", " ", "c", "r", "e", "a",
             "t", "i", "o", "n", ",", " ", "a", "n", "d", " ", "a", "n", "a", "l", "y",
             "t", "i", "c", "s", " ", "r", "e", "q", "u", "i", "r", "e", "d", ".">>,
        requirements |->
           <<<<"D", "i", "g", "i", "t", "a", "l", " ", "M", "a", "r", "k", "e", "t", "i", "n", "g">>,
             <<"C", "o", "n", "t", "e", "n", "t", " ", "S", "t", "r", "a", "t", "e", "g", "y">>,
             <<"A", "n", "a", "l", "y", "t", "i", "c", "s">>,
             <<"S", "o", "c", "i", "a", "l", " ", "M", "e", "d", "i", "a">>,
             <<"A", "d", "o", "b", "e", " ", "C", "r", "e", "a", "t", "i", "v", "e", " ", "S", "u", "i",
               "t", "e">>>>,
        posted_date |->
           <<"2", "0", "2", "4", "-", "0", "1", "-", "1", "2">>,
        company_size |->
           <<"2", "0", "0", "-", "1", "0", "0", "0", " ", "e", "m", "p", "l", "o", "y", "e", "e", "s">>,
        industry |->
           <<"M", "a", "r", "k", "e", "t", "i", "n", "g">>],
      [ title |->
           <<"U", "X", " ", "D", "e", "s", "i", "g", "n", "e", "r">>,
        company |->
           <<"D", "e", "s", "i", "g", "n", "S", "t", "u", "d", "i", "o">>,
        location |->
           <<"A", "u", "s", "t", "i", "n", ",", " ", "T", "X">>,
        salary |->
           <<"$", "7", "0", ",", "0", "0", "0", " ", "-", " ", "$", "1", "0", "0", ",", "0", "0", "0">>,
        description |->
           <<"C", "r", "e", "a", "t", "e", " ", "i", "n", "t", "u", "i", "t", "i", "v", "e", " ", "u",
             "s", "e", "r", " ", "e", "x", "p", "e", "r", "i", "e", "n", "c", "e", "s",
             " ", "f", "o", "r", " ", "m", "o", "b", "i", "l", "e", " ", "a", "n", "d",
             " ", "w", "e", "b", " ", "a", "p", "p", "l", "i", "c", "a", "t", "i", "o",
             "n", "s", ".", " ", "C", "o", "l", "l", "a", "b", "o", "r", "a", "t", "e",
             " ", "w", "i", "t", "h", " ", "p", "r", "o", "d", "u", "c", "t", " ", "a",
             "n", "d", " ", "e", "n", "g", "i", "n", "e", "e", "r", "i", "n", "g", " ",
             "t", "e", "a", "m", "s", ".">>,
        requirements |->
           <<<<"U", "I", "/", "U", "X", " ", "D", "e", "s", "i", "g", "n">>,
             <<"F", "i", "g", "m", "a">>,
             <<"P", "r", "o", "t", "o", "t", "y", "p", "i", "n", "g">>,
             <<"U", "s", "e", "r", " ", "R", "e", "s", "e", "a", "r", "c", "h">>,
             <<"D", "e", "s", "i", "g", "n", " ", "S", "y", "s", "t", "e", "m", "s">>>>,
        posted_date |->
           <<"2", "0", "2", "4", "-", "0", "1", "-", "1", "1">>,
        company_size |->
           <<"5", "0", "-", "2", "0", "0", " ", "e", "m", "p", "l", "o", "y", "e", "e", "s">>,
        industry |->
           <<"D", "e", "s", "i", "g", "n">>]>>

\* common_skills of _generate_job_requirements, in the order of the dict
common_skills ==
    <<[key |-> <<"d", "a", "t", "a", " ", "s", "c", "i", "e", "n", "t", "i", "s", "t">>,
       skills |->
           <<<<"P", "y", "t", "h", "o", "n">>,
             <<"M", "a", "c", "h", "i", "n", "e", " ", "L", "e", "a", "r", "n", "i", "n", "g">>,
             <<"S", "Q", "L">>,
             <<"S", "t", "a", "t", "i", "s", "t", "i", "c", "s">>,
             <<"P", "a", "n", "d", "a", "s">>>>],
      [key |-> <<"s", "o", "f", "t", "w", "a", "r", "e", " ", "e", "n", "g", "i", "n", "e", "e", "r">>,
       skills |->
           <<<<"J", "a", "v", "a", "S", "c", "r", "i", "p", "t">>,
             <<"P", "y", "t", "h", "o", "n">>,
             <<"G", "i", "t">>,
             <<"A", "P", "I", " ", "D", "e", "v", "e", "l", "o", "p", "m", "e", "n", "t">>,
             <<"T", "e", "s", "t", "i", "n", "g">>>>],
      [key |-> <<"p", "r", "o", "d", "u", "c", "t", " ", "m", "a", "n", "a", "g", "e", "r">>,
       skills |->
           <<<<"P", "r", "o", "d", "u", "c", "t", " ", "S", "t", "r", "a", "t", "e", "g", "y">>,
             <<"A", "g", "i", "l", "e">>,
             <<"A", "n", "a", "l", "y", "t", "i", "c", "s">>,
             <<"C", "o", "m", "m", "u", "n", "i", "c", "a", "t", "i", "o", "n">>,
             <<"R", "o", "a", "d", "m", "a", "p", "p", "i", "n", "g">>>>],
      [key |-> <<"d", "e", "s", "i", "g", "n", "e", "r">>,
       skills |->
           <<<<"U", "I", "/", "U", "X", " ", "D", "e", "s", "i", "g", "n">>,
             <<"F", "i", "g", "m", "a">>,
             <<"P", "r", "o", "t", "o", "t", "y", "p", "i", "n", "g">>,
             <<"U", "s", "e", "r", " ", "R", "e", "s", "e", "a", "r", "c", "h">>,
             <<"V", "i", "s", "u", "a", "l", " ", "D", "e", "s", "i", "g", "n">>>>],
      [key |-> <<"m", "a", "r", "k", "e", "t", "i", "n", "g">>,
       skills |->
           <<<<"D", "i", "g", "i", "t", "a", "l", " ", "M", "a", "r", "k", "e", "t", "i", "n", "g">>,
             <<"A", "n", "a", "l", "y", "t", "i", "c", "s">>,
             <<"C", "o", "n", "t", "e", "n", "t", " ", "S", "t", "r", "a", "t", "e", "g", "y">>,
             <<"S", "E", "O">>,
             <<"S", "o", "c", "i", "a", "l", " ", "M", "e", "d", "i", "a">>>>]>>

\* the string literals of the job search, and the completion the endpoint answers with
JobText ==
    [Remote |->
         <<"R", "e", "m", "o", "t", "e">>,
     remote |->
         <<"r", "e", "m", "o", "t", "e">>,
     TitleSep |->
         <<" ", "-", " ">>,
     Dollar |->
         <<"$">>,
     SalaryMid |->
         <<",", "0", "0", "0", " ", "-", " ", "$">>,
     SalaryEnd |->
         <<",", "0", "0", "0">>,
     DescriptionHead |->
         <<"E", "x", "c", "i", "t", "i", "n", "g", " ", "o", "p", "p", "o", "r", "t", "u", "n", "i",
           "t", "y", " ", "f", "o", "r", " ", "a", " ">>,
     DescriptionTail |->
         <<" ", "t", "o", " ", "j", "o", "i", "n", " ", "o", "u", "r", " ", "g", "r", "o", "w", "i",
           "n", "g", " ", "t", "e", "a", "m", ".", " ", "W", "o", "r", "k", " ", "o", "n",
           " ", "i", "n", "n", "o", "v", "a", "t", "i", "v", "e", " ", "p", "r", "o", "j",
           "e", "c", "t", "s", " ", "w", "i", "t", "h", " ", "c", "u", "t", "t", "i", "n",
           "g", "-", "e", "d", "g", "e", " ", "t", "e", "c", "h", "n", "o", "l", "o", "g",
           "y", ".">>,
     Technology |->
         <<"T", "e", "c", "h", "n", "o", "l", "o", "g", "y">>,
     FallbackAnalysis |->
         <<"T", "h", "i", "s", " ", "p", "o", "s", "i", "t", "i", "o", "n", " ", "o", "f", "f", "e",
           "r", "s", " ", "g", "o", "o", "d", " ", "o", "p", "p", "o", "r", "t", "u", "n",
           "i", "t", "i", "e", "s", " ", "f", "o", "r", " ", "g", "r", "o", "w", "t", "h",
           " ", "a", "n", "d", " ", "s", "k", "i", "l", "l", " ", "d", "e", "v", "e", "l",
           "o", "p", "m", "e", "n", "t", ".", " ", "C", "o", "n", "s", "i", "d", "e", "r",
           " ", "a", "p", "p", "l", "y", "i", "n", "g", " ", "i", "f", " ", "t", "h", "e",
           " ", "r", "o", "l", "e", " ", "a", "l", "i", "g", "n", "s", " ", "w", "i", "t",
           "h", " ", "y", "o", "u", "r", " ", "c", "a", "r", "e", "e", "r", " ", "g", "o",
           "a", "l", "s", ".">>,
     ErrorPrefix |->
         <<"E", "r", "r", "o", "r", " ", "s", "e", "a", "r", "c", "h", "i", "n", "g", " ", "f", "o",
           "r", " ", "j", "o", "b", "s", ":", " ">>,
     NoJobsHead |->
         <<"#", "#", " ", "U+1F4BC", " ", "N", "o", " ", "J", "o", "b", "s", " ", "F", "o", "u",
           "n", "d", "\n", "\n", "N", "o", " ", "j", "o", "b", "s", " ", "f", "o", "u",
           "n", "d", " ", "f", "o", "r", " ", "*", "*">>,
     NoJobsMid |->
         <<"*", "*", " ", "i", "n", " ", "*", "*">>,
     NoJobsTail |->
         <<"*", "*", ".", "\n", "\n", "#", "#", "#", " ", "U+1F4A1", " ", "T", "r", "y", ":", "\n",
           "-", " ", "B", "r", "o", "a", "d", "e", "n", "i", "n", "g", " ", "y", "o", "u",
           "r", " ", "s", "e", "a", "r", "c", "h", " ", "t", "e", "r", "m", "s", "\n", "-",
           " ", "C", "o", "n", "s", "i", "d", "e", "r", "i", "n", "g", " ", "r", "e", "m",
           "o", "t", "e", " ", "p", "o", "s", "i", "t", "i", "o", "n", "s", "\n", "-", " ",
           "L", "o", "o", "k", "i", "n", "g", " ", "a", "t", " ", "r", "e", "l", "a", "t",
           "e", "d", " ", "r", "o", "l", "e", "s">>,
     Header |->
         <<"#", "#", " ", "U+1F4BC", " ", "J", "o", "b", " ", "S", "e", "a", "r", "c", "h", " ",
           "R", "e", "s", "u", "l", "t", "s", "\n", "\n">>,
     RoleLabel |->
         <<"*", "*", "R", "o", "l", "e", ":", "*", "*", " ">>,
     LocationLabel |->
         <<"\n", "*", "*", "L", "o", "c", "a", "t", "i", "o", "n", ":", "*", "*", " ">>,
     FoundLabel |->
         <<"\n", "*", "*", "F", "o", "u", "n", "d", ":", "*", "*", " ">>,
     FoundTail |->
         <<" ", "o", "p", "p", "o", "r", "t", "u", "n", "i", "t", "i", "e", "s", "\n", "\n">>,
     JobHeadingHead |->
         <<"#", "#", "#", " ">>,
     JobHeadingDot |->
         <<".", " ">>,
     JobHeadingSpace |->
         <<" ">>,
     JobHeadingEnd |->
         <<"\n", "\n">>,
     Green |->
         <<"U+1F7E2">>,
     Yellow |->
         <<"U+1F7E1">>,
     Red |->
         <<"U+1F534">>,
     CompanyLabel |->
         <<"*", "*", "U+1F3E2", " ", "C", "o", "m", "p", "a", "n", "y", ":", "*", "*", " ">>,
     CompanyOpen |->
         <<" ", "(">>,
     CompanyClose |->
         <<")", "\n">>,
     JobLocationLabel |->
         <<"*", "*", "U+1F4CD", " ", "L", "o", "c", "a", "t", "i", "o", "n", ":", "*", "*", " ">>,
     LineEnd |->
         <<"\n">>,
     SalaryLabel |->
         <<"*", "*", "U+1F4B0", " ", "S", "a", "l", "a", "r", "y", ":", "*", "*", " ">>,
     ScoreLabel |->
         <<"*", "*", "U+1F4CA", " ", "M", "a", "t", "c", "h", " ", "S", "c", "o", "r", "e", ":",
           "*", "*", " ">>,
     ScoreTail |->
         <<"/", "1", "0", "0", "\n">>,
     PostedLabel |->
         <<"*", "*", "U+1F4C5", " ", "P", "o", "s", "t", "e", "d", ":", "*", "*", " ">>,
     ParagraphEnd |->
         <<"\n", "\n">>,
     Ellipsis |->
         <<".", ".", ".">>,
     DescriptionLabel |->
         <<"*", "*", "U+1F4DD", " ", "D", "e", "s", "c", "r", "i", "p", "t", "i", "o", "n", ":",
           "*", "*", " ">>,
     RequirementsLabel |->
         <<"*", "*", "U+1F527", " ", "K", "e", "y", " ", "R", "e", "q", "u", "i", "r", "e", "m",
           "e", "n", "t", "s", ":", "*", "*", " ">>,
     CommaSpace |->
         <<",", " ">>,
     AnalysisLabel |->
         <<"*", "*", "U+1F916", " ", "A", "I", " ", "A", "n", "a", "l", "y", "s", "i", "s", ":",
           "*", "*", " ">>,
     Dot |->
         <<".">>,
     Rule |->
         <<"-", "-", "-", "\n", "\n">>,
     TipsHeading |->
         <<"#", "#", " ", "U+1F4A1", " ", "J", "o", "b", " ", "S", "e", "a", "r", "c", "h", " ",
           "S", "u", "c", "c", "e", "s", "s", " ", "T", "i", "p", "s", "\n", "\n">>,
     Tip1 |->
         <<"1", ".", " ", "*", "*", "U+1F4C4", " ", "T", "a", "i", "l", "o", "r", " ", "Y", "o",
           "u", "r", " ", "R", "e", "s", "u", "m", "e", "*", "*", ":", " ", "C", "u", "s",
           "t", "o", "m", "i", "z", "e", " ", "f", "o", "r", " ", "e", "a", "c", "h", " ",
           "a", "p", "p", "l", "i", "c", "a", "t", "i", "o", "n", " ", "u", "s", "i", "n",
           "g", " ", "k", "e", "y", "w", "o", "r", "d", "s", " ", "f", "r", "o", "m", " ",
           "j", "o", "b", " ", "d", "e", "s", "c", "r", "i", "p", "t", "i", "o", "n", "s",
           "\n">>,
     Tip2 |->
         <<"2", ".", " ", "*", "*", "U+1F91D", " ", "N", "e", "t", "w", "o", "r", "k", "*", "*",
           ":", " ", "L", "e", "v", "e", "r", "a", "g", "e", " ", "L", "i", "n", "k", "e",
           "d", "I", "n", " ", "a", "n", "d", " ", "p", "r", "o", "f", "e", "s", "s", "i",
           "o", "n", "a", "l", " ", "c", "o", "n", "n", "e", "c", "t", "i", "o", "n", "s",
           "\n">>,
     Tip3 |->
         <<"3", ".", " ", "*", "*", "U+1F50D", " ", "R", "e", "s", "e", "a", "r", "c", "h", "*",
           "*", ":", " ", "S", "t", "u", "d", "y", " ", "c", "o", "m", "p", "a", "n", "y",
           " ", "c", "u", "l", "t", "u", "r", "e", ",", " ", "v", "a", "l", "u", "e", "s",
           ",", " ", "a", "n", "d", " ", "r", "e", "c", "e", "n", "t", " ", "n", "e", "w",
           "s", "\n">>,
     Tip4 |->
         <<"4", ".", " ", "*", "*", "U+1F4DE", " ", "F", "o", "l", "l", "o", "w", " ", "U", "p",
           "*", "*", ":", " ", "S", "e", "n", "d", " ", "p", "e", "r", "s", "o", "n", "a",
           "l", "i", "z", "e", "d", " ", "m", "e", "s", "s", "a", "g", "e", "s", " ", "a",
           "f", "t", "e", "r", " ", "a", "p", "p", "l", "y", "i", "n", "g", "\n">>,
     Tip5 |->
         <<"5", ".", " ", "*", "*", "U+1F3AF", " ", "P", "r", "a", "c", "t", "i", "c", "e", "*",
           "*", ":", " ", "P", "r", "e", "p", "a", "r", "e", " ", "f", "o", "r", " ", "c",
           "o", "m", "m", "o", "n", " ", "i", "n", "t", "e", "r", "v", "i", "e", "w", " ",
           "q", "u", "e", "s", "t", "i", "o", "n", "s", " ", "i", "n", " ", "y", "o", "u",
           "r", " ", "f", "i", "e", "l", "d", "\n", "\n">>,
     MoreHead |->
         <<"*", "S", "h", "o", "w", "i", "n", "g", " ", "t", "o", "p", " ", "5", " ", "r", "e", "s",
           "u", "l", "t", "s", ".", " ">>,
     MoreTail |->
         <<" ", "m", "o", "r", "e", " ", "o", "p", "p", "o", "r", "t", "u", "n", "i", "t", "i", "e",
           "s", " ", "i", "n", " ", "y", "o", "u", "r", " ", "s", "e", "a", "r", "c", "h",
           ".", "*", "\n">>,
     Dash |->
         <<"-">>,
     AnalysisCompletion |->
         <<"M", "a", "t", "c", "h", " ", "s", "c", "o", "r", "e", ":", " ", "9", "0", "/", "1", "0",
           "0", ".", " ", "S", "t", "r", "o", "n", "g", " ", "f", "i", "t", ".">>]

\* the lists random.choice draws from in _generate_additional_jobs, and the default
\* requirements of _generate_job_requirements
JobChoices ==
    [levels |-> <<<<"S", "e", "n", "i", "o", "r">>,
             <<"M", "i", "d", "-", "l", "e", "v", "e", "l">>,
             <<"J", "u", "n", "i", "o", "r">>>>,
     companies |-> <<<<"I", "n", "n", "o", "v", "a", "t", "e", "C", "o", "r", "p">>,
             <<"F", "u", "t", "u", "r", "e", "T", "e", "c", "h">>,
             <<"N", "e", "x", "t", "G", "e", "n", " ", "S", "o", "l", "u", "t", "i", "o", "n", "s">>,
             <<"A", "l", "p", "h", "a", " ", "S", "y", "s", "t", "e", "m", "s">>,
             <<"B", "e", "t", "a", " ", "D", "y", "n", "a", "m", "i", "c", "s">>>>,
     sizes |-> <<<<"5", "0", "-", "2", "0", "0", " ", "e", "m", "p", "l", "o", "y", "e", "e", "s">>,
             <<"2", "0", "0", "-", "1", "0", "0", "0", " ", "e", "m", "p", "l", "o", "y", "e", "e", "s">>,
             <<"1", "0", "0", "0", "+", " ", "e", "m", "p", "l", "o", "y", "e", "e", "s">>>>,
     default_skills |-> <<<<"C", "o", "m", "m", "u", "n", "i", "c", "a", "t", "i", "o", "n">>,
             <<"P", "r", "o", "b", "l", "e", "m", " ", "S", "o", "l", "v", "i", "n", "g">>,
             <<"T", "e", "a", "m", "w", "o", "r", "k">>,
             <<"A", "n", "a", "l", "y", "t", "i", "c", "a", "l", " ", "T", "h", "i", "n", "k", "i", "n",
               "g">>>>]

\* s.split(): the runs of characters that are not whitespace
RECURSIVE WordsFrom(_, _)
WordsFrom(s, i) ==
    IF i > Len(s) THEN <<>>
    ELSE IF IsSpace(s[i]) THEN WordsFrom(s, i + 1)
    ELSE LET e == CHOOSE j \in i..Len(s) :
                      /\ \A k \in i..j : ~IsSpace(s[k])
                      /\ j = Len(s) \/ IsSpace(s[j + 1])
         IN  <<SubSeq(s, i, e)>> \o WordsFrom(s, e + 1)

SplitWhitespace(s) == WordsFrom(s, 1)

\* the day the runs begin on, the day named by Today; the clocks are read
\* from 12:00:00 of it on
TodayDate == [year |-> 2026, month |-> 10, day |-> 30]

DaysInMonth(year, month) ==
    IF month = 2
    THEN IF year % 4 = 0 /\ (year % 100 # 0 \/ year % 400 = 0) THEN 29 ELSE 28
    ELSE IF month \in {4, 6, 9, 11} THEN 30 ELSE 31

\* date - timedelta(days=n)
RECURSIVE DaysBefore(_, _)
DaysBefore(date, n) ==
    IF n = 0 THEN date
    ELSE IF date.day > 1 THEN DaysBefore([date EXCEPT !.day = @ - 1], n - 1)
    ELSE IF date.month > 1
    THEN DaysBefore([year |-> date.year, month |-> date.month - 1,
                     day |-> DaysInMonth(date.year, date.month - 1)], n - 1)
    ELSE DaysBefore([year |-> date.year - 1, month |-> 12, day |-> 31], n - 1)

\* two digits, as %m and %d print them
TwoDigits(n) == IF n < 10 THEN <<"0">> \o IntToStr(n) ELSE IntToStr(n)

\* date.strftime('%Y-%m-%d')
IsoDate(date) ==
    IntToStr(date.year) \o JobText.Dash \o TwoDigits(date.month) \o JobText.Dash
        \o TwoDigits(date.day)

\* date + timedelta(days=n)
RECURSIVE DaysAfter(_, _)
DaysAfter(date, n) ==
    IF date.day + n <= DaysInMonth(date.year, date.month)
    THEN [date EXCEPT !.day = @ + n]
    ELSE LET left == n - (DaysInMonth(date.year, date.month) - date.day + 1)
         IN  IF date.month < 12
             THEN DaysAfter([year |-> date.year, month |-> date.month + 1, day |-> 1], left)
             ELSE DaysAfter([year |-> date.year + 1, month |-> 1, day |-> 1], left)

\* the datetime n seconds after 12:00:00 of TodayDate
ClockAt(n) ==
    LET since == 12 * 3600 + n
    IN  [date |-> DaysAfter(TodayDate, since \div 86400),
         hour |-> (since % 86400) \div 3600,
         minute |-> (since % 3600) \div 60,
         second |-> since % 60]

\* the date of datetime.now() read n microseconds after 12:00:00 of TodayDate
DateAt(n) == ClockAt(n \div 1000000).date

\* datetime.now().isoformat() at the n-th microsecond after 12:00:00 of
\* TodayDate: the date, "T", hours, minutes and seconds in two digits each,
\* then the microseconds in six digits, left out when they are zero
IsoFormat(n) ==
    LET t == ClockAt(n \div 1000000)
        microsecond == n % 1000000
        digits == IntToStr(microsecond)
        time == IsoDate(t.date) \o <<"T">> \o TwoDigits(t.hour) \o <<":">>
                \o TwoDigits(t.minute) \o <<":">> \o TwoDigits(t.second)
    IN  IF microsecond = 0 THEN time
        ELSE time \o <<".">> \o [i \in 1..(6 - Len(digits)) |-> "0"] \o digits

\* bounds of the runs: the streams of draws a search starts from, the calls
\* of one search that the endpoint leaves without a number to read, and the
\* readings of datetime.now() in microseconds after 12:00:00
MaxStreams == 6
MaxRandomScores == 1
MaxJobClock == 1

\* the n-th order of the list: random.sample(skills, 5) of a list of five
\* gives any order of it
RECURSIVE SampleOrder(_, _)
SampleOrder(pool, n) ==
    IF pool = <<>> THEN <<>>
    ELSE LET rest == Len(pool) - 1
             orders == IF rest <= 1 THEN 1 ELSE IF rest = 2 THEN 2 ELSE IF rest = 3 THEN 6 ELSE 24
             k == ((n \div orders) % Len(pool)) + 1
         IN  <<pool[k]>> \o SampleOrder(SubSeq(pool, 1, k - 1) \o SubSeq(pool, k + 1, Len(pool)),
                                        n % orders)

\* the values the random module hands to one turn of the loop of
\* _generate_additional_jobs: the choices of lines 125, 126 and 132 as list
\* positions, the integers of lines 128 and 131, and the order random.sample
\* gives to five skills (line 152)
JobDrawValues ==
    [level : 1..3, company : 1..5, salary_from : RandInt(60, 150),
     salary_to : RandInt(80, 200), days : RandInt(1, 30), size : 1..3,
     sample : {SampleOrder(<<1, 2, 3, 4, 5>>, n) : n \in 0..119}]

\* the draws numbered: the n-th draw has the digits of n in the mixed radix
\* 3, 5, 91, 121, 120, 30, 3, in the order the loop draws them, so that the
\* numbers 0 to 1,783,781,999 name every value of JobDrawValues once
JobDraws(n) ==
    [level |-> 1 + (n % 3),
     company |-> 1 + ((n \div 3) % 5),
     salary_from |-> 60 + ((n \div 15) % 91),
     salary_to |-> 80 + ((n \div 1365) % 121),
     sample |-> SampleOrder(<<1, 2, 3, 4, 5>>, (n \div 165165) % 120),
     days |-> 1 + ((n \div 19819800) % 30),
     size |-> 1 + ((n \div 594594000) % 3)]

\* the numbers of the draws of five turns of the loop after random.seed(31),
\* random.seed(0) and random.seed(1000), for a role random.sample is called
\* for and for a role it is not called for
SeededDraws ==
    <<<<1261993224, 915638178, 794959797, 521627038, 726090304>>,
      <<237970224, 336955967, 1209136385, 1050542658, 39742376>>,
      <<1426575235, 182556732, 1577714717, 1068529752, 1317938702>>,
      <<911755930, 356818747, 475698950, 1684806878, 1228954731>>,
      <<1330631416, 1214213841, 350065451, 999276032, 739134913>>,
      <<634295776, 1327949277, 1308192726, 277616873, 1625304414>>>>

\* the k-th stream the runs follow: the draws of five turns of the loop
DrawStream(k) ==
    IF k <= Len(SeededDraws)
    THEN [i \in 1..5 |-> JobDraws(SeededDraws[k][i])]
    ELSE [i \in 1..5 |-> JobDraws((5 * k + i) * 12345679)]

\* the draws of the turns the loop of _generate_additional_jobs takes when
\* it is asked for count jobs
RandomStreams(count) ==
    {SubSeq(DrawStream(k), 1, count) : k \in 1..MaxStreams}

\* _generate_job_requirements
GenerateJobRequirements(role, sample) ==
    LET role_lower == Lower(role)
        hits == {k \in 1..Len(common_skills) : Contains(role_lower, common_skills[k].key)}
    IN  IF hits = {} THEN JobChoices.default_skills
        ELSE LET k == CHOOSE h \in hits : \A g \in hits : h <= g
                 skills == common_skills[k].skills
             IN  [n \in 1..Min(5, Len(skills)) |-> skills[sample[n]]]

\* the dict that one turn of the loop of _generate_additional_jobs builds
GeneratedJob(role, location, draw, now) ==
    [title |-> role \o JobText.TitleSep \o JobChoices.levels[draw.level],
     company |-> JobChoices.companies[draw.company],
     location |-> IF location # JobText.remote THEN location ELSE JobText.Remote,
     salary |-> JobText.Dollar \o IntToStr(draw.salary_from) \o JobText.SalaryMid
                    \o IntToStr(draw.salary_to) \o JobText.SalaryEnd,
     description |-> JobText.DescriptionHead \o role \o JobText.DescriptionTail,
     requirements |-> GenerateJobRequirements(role, draw.sample),
     posted_date |-> IsoDate(DaysBefore(DateAt(now), draw.days)),
     company_size |-> JobChoices.sizes[draw.size],
     industry |-> JobText.Technology]

\* _generate_additional_jobs: the i-th turn of the loop takes the i-th draws
\* and reads the clock for the i-th time
GenerateAdditionalJobs(role, location, count, stream, nows) ==
    [i \in 1..count |-> GeneratedJob(role, location, stream[i], nows[i])]

\* title_match of _filter_jobs
TitleMatch(job, role_keywords) ==
    \E k \in 1..Len(role_keywords) : Contains(Lower(job.title), role_keywords[k])

\* location_match of _filter_jobs
LocationMatch(job, location) ==
    \/ Lower(location) = JobText.remote
    \/ Contains(Lower(job.location), Lower(location))
    \/ job.location = JobText.Remote

\* A dict of a list is kept together with the place of self.job_database
\* whose dict it is, 0 for a dict made during the search.
\* a plausible slip: `filtered_jobs.append(job)`, the list holds the dict of
\* the table itself
JobCopy_Shared(k, job) == [origin |-> k, job |-> job]

\* `job.copy()`: a new dict with the entries of job (the requirements list
\* is shared with the table; no statement changes a list in place)
JobCopy(k, job) == [origin |-> 0, job |-> job]

\* the places of the table whose job matches, in order
MatchingPlaces(database, role, location) ==
    LET role_keywords == SplitWhitespace(Lower(role))
    IN  SelectSeq([k \in 1..Len(database) |-> k],
                  LAMBDA k : TitleMatch(database[k], role_keywords)
                                 /\ LocationMatch(database[k], location))

\* a plausible slip: a short list is filled up to three jobs
FilterJobs_PadsToThree(database, role, location, stream, nows) ==
    LET places == MatchingPlaces(database, role, location)
        filtered_jobs == [i \in 1..Len(places) |-> JobCopy(places[i], database[places[i]])]
        additional_jobs == GenerateAdditionalJobs(role, location, 3 - Len(filtered_jobs),
                                                  stream, nows)
    IN  IF Len(filtered_jobs) < 3
        THEN filtered_jobs \o [i \in 1..Len(additional_jobs) |->
                                  [origin |-> 0, job |-> additional_jobs[i]]]
        ELSE filtered_jobs

\* the jobs _filter_jobs has _generate_additional_jobs make
GeneratedCount(database, role, location) ==
    LET matches == Len(MatchingPlaces(database, role, location))
    IN  IF matches < 3 THEN 5 - matches ELSE 0

\* the jobs _filter_jobs returns
FilteredCount(database, role, location) ==
    LET matches == Len(MatchingPlaces(database, role, location))
    IN  IF matches < 3 THEN 5 ELSE Min(10, matches)

\* _filter_jobs on the table as the object holds it
FilterJobs(database, role, location, stream, nows) ==
    LET places == MatchingPlaces(database, role, location)
        filtered_jobs == [i \in 1..Len(places) |-> JobCopy(places[i], database[places[i]])]
        additional_jobs == GenerateAdditionalJobs(role, location, 5 - Len(filtered_jobs),
                                                  stream, nows)
        extended == IF Len(filtered_jobs) < 3
                    THEN filtered_jobs \o [i \in 1..Len(additional_jobs) |->
                                              [origin |-> 0, job |-> additional_jobs[i]]]
                    ELSE filtered_jobs
    IN  SubSeq(extended, 1, Min(10, Len(extended)))

\* _extract_match_score as a set: the scores it can return for a text, none
\* when int() raises
ExtractMatchScore(text) ==
    IF FirstMatchingPattern(text) # 0
    THEN LET digits == RegexSearch(score_patterns[FirstMatchingPattern(text)], text).group1
         IN  IF IntRaises(digits) THEN {} ELSE {Clamp(ParseInt(digits))}
    ELSE SentimentBand(text)

\* the score of the except branch of _get_job_match_analysis
FallbackScores == RandInt(60, 85)

\* the texts the endpoint answers the analysis prompt with
JobAnalysisTexts == {<<>>, JobText.AnalysisCompletion}

\* what the endpoint does at one call: it raises, or it answers a text
EndpointAnswers ==
    {[raised |-> TRUE, text |-> <<>>]}
        \cup {[raised |-> FALSE, text |-> text] : text \in JobAnalysisTexts}

\* _get_job_match_analysis goes to its except branch: the call of the
\* endpoint raised, or int() did in _extract_match_score
TakesExcept(answer) == answer.raised \/ ExtractMatchScore(answer.text) = {}

\* the score of the call is one random.randint draws: in the except
\* branch, or in _extract_match_score when no pattern matches the text
DrawsScore(answer) == TakesExcept(answer) \/ FirstMatchingPattern(answer.text) = 0

\* what the endpoint does at the count calls of one search
EndpointScripts(count) ==
    {script \in [1..count -> EndpointAnswers] :
        Cardinality({i \in 1..count : DrawsScore(script[i])}) <= MaxRandomScores}

\* the readings of the clock that can follow the reading n
LaterReading(n) == {m \in n..MaxJobClock : m <= n + 1}

\* count readings of the clock in a row after the reading n
RECURSIVE ClockReadings(_, _)
ClockReadings(n, count) ==
    IF count = 0 THEN {<<>>}
    ELSE UNION {{<<m>> \o rest : rest \in ClockReadings(m, count - 1)} :
                   m \in LaterReading(n)}

\* the dict _get_job_match_analysis returns, from either branch, when
\* datetime.now() reads now
MatchAnalysis(score_, text, now) ==
    [score |-> score_, analysis |-> text, timestamp |-> IsoFormat(now)]

\* job with job['match_analysis'] set
WithAnalysis(job, analysis_) ==
    [title |-> job.title, company |-> job.company, location |-> job.location,
     salary |-> job.salary, description |-> job.description,
     requirements |-> job.requirements, posted_date |-> job.posted_date,
     company_size |-> job.company_size, industry |-> job.industry,
     match_analysis |-> analysis_]

\* a plausible slip: a job goes before the jobs of its own score
GoesBehind_OnlyHigher(earlier, job) ==
    earlier.match_analysis.score > job.match_analysis.score

\* the key of the sort, `x['match_analysis'].get('score', 0)` with reverse=True:
\* a job stays behind an earlier job whose score is at least its own
GoesBehind(earlier, job) ==
    earlier.match_analysis.score >= job.match_analysis.score

\* sorted(..., reverse=True) keeps the order of jobs of equal score: a job goes
\* behind every job whose score is at least its own
RECURSIVE InsertByScore(_, _)
InsertByScore(sorted, job) ==
    IF sorted = <<>> THEN <<job>>
    ELSE IF GoesBehind(Head(sorted), job)
    THEN <<Head(sorted)>> \o InsertByScore(Tail(sorted), job)
    ELSE <<job>> \o sorted

\* sorted(analyzed_jobs, key=lambda x: x['match_analysis'].get('score', 0), reverse=True)
RECURSIVE SortByScore(_)
SortByScore(list) ==
    IF list = <<>> THEN <<>>
    ELSE InsertByScore(SortByScore(SubSeq(list, 1, Len(list) - 1)), list[Len(list)])

\* score_emoji
ScoreEmoji(match_score) ==
    IF match_score >= 80 THEN JobText.Green
    ELSE IF match_score >= 60 THEN JobText.Yellow
    ELSE JobText.Red

\* the statements of one turn of the loop of _format_job_results
JobPieces(i, job) ==
    LET match_score == job.match_analysis.score
        description == IF Len(job.description) > 200
                       THEN SubSeq(job.description, 1, 200) \o JobText.Ellipsis
                       ELSE job.description
        analysis_ == job.match_analysis.analysis
    IN  <<Piece("title", JobText.JobHeadingHead \o IntToStr(i) \o JobText.JobHeadingDot
                             \o job.title \o JobText.JobHeadingSpace
                             \o ScoreEmoji(match_score) \o JobText.JobHeadingEnd),
          Piece("company", JobText.CompanyLabel \o job.company \o JobText.CompanyOpen
                               \o job.company_size \o JobText.CompanyClose),
          Piece("location", JobText.JobLocationLabel \o job.location \o JobText.LineEnd),
          Piece("salary", JobText.SalaryLabel \o job.salary \o JobText.LineEnd),
          Piece("score", JobText.ScoreLabel \o IntToStr(match_score) \o JobText.ScoreTail),
          Piece("posted", JobText.PostedLabel \o job.posted_date \o JobText.ParagraphEnd),
          Piece("description", JobText.DescriptionLabel \o description
                                   \o JobText.ParagraphEnd)>>
        \o (IF job.requirements # <<>>
            THEN <<Piece("requirements", JobText.RequirementsLabel
                             \o Join(job.requirements, JobText.CommaSpace)
                             \o JobText.ParagraphEnd)>>
            ELSE <<>>)
        \o (IF analysis_ # <<>>
            THEN <<Piece("analysis", JobText.AnalysisLabel
                             \o Split(analysis_, ".")[1] \o JobText.Dot
                             \o JobText.ParagraphEnd)>>
            ELSE <<>>)
        \o <<Piece("rule", JobText.Rule)>>

\* the loop `for i, job in enumerate(jobs[:5], 1)`
RECURSIVE JobSections(_, _)
JobSections(list, i) ==
    IF i > Min(5, Len(list)) THEN <<>>
    ELSE JobPieces(i, list[i]) \o JobSections(list, i + 1)

\* _format_job_results
FormatJobResults(list, role, location) ==
    IF list = <<>>
    THEN <<Piece("none", JobText.NoJobsHead \o role \o JobText.NoJobsMid \o location
                             \o JobText.NoJobsTail)>>
    ELSE <<Piece("header", JobText.Header),
           Piece("summary", JobText.RoleLabel \o role \o JobText.LocationLabel \o location
                                \o JobText.FoundLabel \o IntToStr(Len(list))
                                \o JobText.FoundTail)>>
         \o JobSections(list, 1)
         \o <<Piece("tips", JobText.TipsHeading), Piece("tips", JobText.Tip1),
              Piece("tips", JobText.Tip2), Piece("tips", JobText.Tip3),
              Piece("tips", JobText.Tip4), Piece("tips", JobText.Tip5)>>
         \o (IF Len(list) > 5
             THEN <<Piece("more", JobText.MoreHead \o IntToStr(Len(list) - 5)
                                      \o JobText.MoreTail)>>
             ELSE <<>>)

\* the arguments of search; experience_level only goes into the prompt
JobSearches ==
    {[role |-> <<>>, location |-> <<>>],
     [role |-> <<"e", "n", "g", "i", "n", "e", "e", "r">>, location |-> JobText.remote],
     [role |-> <<"M", "a", "n", "a", "g", "e", "r", " ", " ", "x">>, location |-> JobText.Remote],
     [role |-> <<"e">>, location |-> JobText.remote],
     [role |-> <<"D", "a", "t", "a", " ", "S", "c", "i", "e", "n", "t", "i", "s", "t">>,
      location |-> <<"a", "u", "s", "t", "i", "n">>],
     [role |-> <<"d", "e", "s", "i", "g", "n", "e", "r">>, location |-> <<"T", "X">>],
     [role |-> <<"m", "a", "n", "a", "g", "e", "r">>, location |-> JobText.remote],
     [role |-> <<"E", "R">>, location |-> JobText.remote]}

\* the arguments of a search on an object whose table is database, with
\* what the random module and the endpoint hand to it
SearchInputs(database) ==
    UNION {{[role |-> search.role, location |-> search.location, draws |-> stream,
             endpoint |-> script] :
               stream \in RandomStreams(GeneratedCount(database, search.role, search.location)),
               script \in EndpointScripts(FilteredCount(database, search.role,
                                                        search.location))} :
              search \in JobSearches}

\* a new JobSearcher object, and search called on it
JobStart ==
    /\ \E input \in SearchInputs(job_database) :
           /\ job_role = input.role
           /\ job_location = input.location
           /\ job_draws = input.draws
           /\ job_endpoint = input.endpoint
    /\ job_now = 0
    /\ job_pc = "start"
    /\ jobs = <<>>
    /\ job_origins = <<>>
    /\ analyzed_jobs = <<>>
    /\ job_calls = <<>>
    /\ job_result = <<>>
    /\ searcher_database = job_database

JobIdle ==
    /\ job_role = <<>>
    /\ job_location = <<>>
    /\ job_draws = <<>>
    /\ job_endpoint = <<>>
    /\ job_now = 0
    /\ job_pc = "idle"
    /\ jobs = <<>>
    /\ job_origins = <<>>
    /\ analyzed_jobs = <<>>
    /\ job_calls = <<>>
    /\ job_result = <<>>
    /\ searcher_database = <<>>

\* search: `jobs = self._filter_jobs(role, location, experience_level)`; each
\* turn of the loop of _generate_additional_jobs reads the clock
FilterJobsReturns ==
    /\ JobFrame
    /\ job_pc = "start"
    /\ \E nows \in ClockReadings(job_now, GeneratedCount(searcher_database, job_role,
                                                         job_location)) :
         LET filtered_jobs == FilterJobs(searcher_database, job_role, job_location,
                                         job_draws, nows)
         IN  /\ jobs' = [i \in 1..Len(filtered_jobs) |-> filtered_jobs[i].job]
             /\ job_origins' = [i \in 1..Len(filtered_jobs) |-> filtered_jobs[i].origin]
             /\ job_now' = IF nows = <<>> THEN job_now ELSE nows[Len(nows)]
    /\ job_pc' = IF jobs' = <<>> THEN "analyzed" ELSE "filtered"
    /\ UNCHANGED <<job_role, job_location, job_draws, job_endpoint, analyzed_jobs, job_calls,
                   job_result, searcher_database>>

\* what _analyze_job_matches holds after a turn of its loop: the list, sorted
\* when the turn was the last one
AfterTurn(list) ==
    IF Len(list) = Len(jobs) THEN SortByScore(list) ELSE list

\* `job['match_analysis'] = analysis; analyzed_jobs.append(job)`: the dict of
\* jobs is changed in place and is the dict appended; it is changed in the
\* table too when it is a dict of the table
SetMatchAnalysis(analysis_, returned) ==
    LET i == Len(analyzed_jobs) + 1
        job == WithAnalysis(jobs[i], analysis_)
    IN  /\ jobs' = [jobs EXCEPT ![i] = job]
        /\ analyzed_jobs' = AfterTurn(Append(analyzed_jobs, job))
        /\ searcher_database' = IF job_origins[i] = 0 THEN searcher_database
                                ELSE [searcher_database EXCEPT ![job_origins[i]] = job]
        /\ job_calls' = Append(job_calls, returned)
        /\ job_pc' = IF i = Len(jobs) THEN "analyzed" ELSE "filtered"

\* _analyze_job_matches: one turn of the loop, _get_job_match_analysis
\* returns from its try branch: the endpoint's text, the score read from it
\* (any integer of 40..70 when it has no number and no sentiment word), and
\* the reading of the clock
AnalyzeJobReturns ==
    /\ JobFrame
    /\ job_pc = "filtered"
    /\ Len(analyzed_jobs) < Len(jobs)
    /\ LET answer == job_endpoint[Len(analyzed_jobs) + 1]
       IN  /\ ~TakesExcept(answer)
           /\ \E score_ \in ExtractMatchScore(answer.text), now \in LaterReading(job_now) :
                  /\ SetMatchAnalysis(MatchAnalysis(score_, answer.text, now), TRUE)
                  /\ job_now' = now
    /\ UNCHANGED <<job_role, job_location, job_draws, job_endpoint, job_origins, job_result>>

\* _analyze_job_matches: one turn of the loop, the call of the endpoint or
\* _extract_match_score raises and _get_job_match_analysis returns from
\* its except branch: any integer of 60..85, the fixed text, and the
\* reading of the clock
AnalyzeJobFails ==
    /\ JobFrame
    /\ job_pc = "filtered"
    /\ Len(analyzed_jobs) < Len(jobs)
    /\ TakesExcept(job_endpoint[Len(analyzed_jobs) + 1])
    /\ \E score_ \in FallbackScores, now \in LaterReading(job_now) :
           /\ SetMatchAnalysis(MatchAnalysis(score_, JobText.FallbackAnalysis, now), FALSE)
           /\ job_now' = now
    /\ UNCHANGED <<job_role, job_location, job_draws, job_endpoint, job_origins, job_result>>

\* search: `return self._format_job_results(analyzed_jobs, role, location)`
FormatJobResultsReturns ==
    /\ JobFrame
    /\ job_pc = "analyzed"
    /\ job_result' = FormatJobResults(analyzed_jobs, job_role, job_location)
    /\ job_pc' = "done"
    /\ UNCHANGED <<job_role, job_location, job_draws, job_endpoint, job_now, jobs,
                   job_origins, analyzed_jobs, job_calls, searcher_database>>


(***************************************************************************)
(* LaunchPadAgent._extract_paths.                                          *)
(***************************************************************************)
\* keyword and dict key literals of _extract_paths
PathWords ==
    [path |-> <<"p", "a", "t", "h">>,
     skills |-> <<"s", "k", "i", "l", "l", "s">>,
     timeline |-> <<"t", "i", "m", "e", "l", "i", "n", "e">>,
     title |-> <<"t", "i", "t", "l", "e">>,
     required_skills |-> <<"r", "e", "q", "u", "i", "r", "e", "d", "_", "s", "k", "i", "l", "l", "s">>]

\* a plausible slip: the dict is appended whether it is empty or not
ClosePath_Always(found, current_path) == Append(found, current_path)

\* `if current_path: paths.append(current_path)`: an empty dict is not appended
ClosePath(found, current_path) ==
    IF current_path # <<>> THEN Append(found, current_path) ELSE found

\* the body of the for loop, for one line
PathLineUpdate(current_path, line) ==
    IF current_path # <<>> /\ Strip(line) # <<>>
    THEN IF Contains(Lower(line), PathWords.skills)
         THEN DictSet(current_path, PathWords.required_skills, line)
         ELSE IF Contains(Lower(line), PathWords.timeline)
         THEN DictSet(current_path, PathWords.timeline, line)
         ELSE current_path
    ELSE current_path

\* the for loop over the lines, from line i on
RECURSIVE ExtractPathsLines(_, _, _, _)
ExtractPathsLines(lines, i, current_path, found) ==
    IF i > Len(lines) THEN ClosePath(found, current_path)
    ELSE LET line == lines[i]
         IN  IF Contains(Lower(line), PathWords.path) /\ Contains(line, <<":">>)
             THEN LET pieces == Split(line, ":")
                  IN  ExtractPathsLines(lines, i + 1,
                                        <<<<PathWords.title, Strip(pieces[Len(pieces)])>>>>,
                                        ClosePath(found, current_path))
             ELSE ExtractPathsLines(lines, i + 1, PathLineUpdate(current_path, line), found)

\* _extract_paths
ExtractPaths(response) == ExtractPathsLines(Split(response, "\n"), 1, <<>>, <<>>)

\* the response is built from at most MaxPathFragments fragments
MaxPathFragments == 3

PathFragment ==
    [PathAnalyst |-> <<"P", "a", "t", "h", " ", "1", ":", " ", "D", "a", "t", "a", " ", "A", "n", "a", "l", "y",
           "s", "t", "\n">>,
     Skills |-> <<"R", "e", "q", "u", "i", "r", "e", "d", " ", "s", "k", "i", "l", "l", "s", ":", " ", "S",
           "Q", "L", "\n">>,
     Timeline |-> <<" ", " ", "T", "i", "m", "e", "l", "i", "n", "e", ":", " ", "2", " ", "y", "e", "a", "r",
           "s", "\n">>,
     PathEmpty |-> <<"P", "A", "T", "H", ":", "\n">>,
     NoColon |-> <<"A", " ", "p", "a", "t", "h", " ", "w", "i", "t", "h", "o", "u", "t", " ", "a", " ", "c",
           "o", "l", "o", "n", "\n">>,
     Blank |-> <<" ", "\n">>,
     Advice |-> <<"L", "e", "a", "r", "n", " ", "b", "y", " ", "d", "o", "i", "n", "g", ".">>]

PathFragments ==
    {PathFragment.PathAnalyst, PathFragment.Skills, PathFragment.Timeline,
     PathFragment.PathEmpty, PathFragment.NoColon, PathFragment.Blank, PathFragment.Advice}

PathResponses == {Concat(fs) : fs \in SeqsUpTo(PathFragments, MaxPathFragments)}

PathsStart ==
    /\ paths_response \in PathResponses
    /\ paths_pc = "start"
    /\ paths = <<>>

PathsIdle ==
    /\ paths_response = <<>>
    /\ paths_pc = "idle"
    /\ paths = <<>>

\* reason_about_career_path: `self._extract_paths(response)`
ExtractPathsReturns ==
    /\ PathsFrame
    /\ paths_pc = "start"
    /\ paths' = ExtractPaths(paths_response)
    /\ paths_pc' = "done"
    /\ UNCHANGED paths_response


(***************************************************************************)
(* AWSServices: the operations on the three tables.                        *)
(***************************************************************************)
\* the key and value literals of the operations, and the values of the
\* arguments, of the clock and of uuid4 that the runs follow
GatewayText ==
    [user_id |-> <<"u", "s", "e", "r", "_", "i", "d">>,
     updated_at |-> <<"u", "p", "d", "a", "t", "e", "d", "_", "a", "t">>,
     created_at |-> <<"c", "r", "e", "a", "t", "e", "d", "_", "a", "t">>,
     plan_id |-> <<"p", "l", "a", "n", "_", "i", "d">>,
     status |-> <<"s", "t", "a", "t", "u", "s">>,
     active |-> <<"a", "c", "t", "i", "v", "e">>,
     application_id |-> <<"a", "p", "p", "l", "i", "c", "a", "t", "i", "o", "n", "_", "i", "d">>,
     applied_at |-> <<"a", "p", "p", "l", "i", "e", "d", "_", "a", "t">>,
     applied |-> <<"a", "p", "p", "l", "i", "e", "d">>,
     notes |-> <<"n", "o", "t", "e", "s">>,
     empty |-> <<>>,
     UuidHead |-> <<"3", "f", "2", "b", "8", "c", "1", "e", "-", "7", "a", "4", "d", "-", "4", "c", "9", "b",
           "-", "8", "e", "2", "1", "-", "5", "d", "6", "f", "0", "a", "9", "b", "7", "c",
           "4">>,
     User1 |-> <<"u", "1">>,
     User2 |-> <<"u", "2">>,
     Earlier |-> <<"2", "0", "2", "0", "-", "0", "1", "-", "0", "1", "T", "0", "0", ":", "0", "0", ":", "0",
           "0">>,
     name |-> <<"n", "a", "m", "e">>,
     Ann |-> <<"A", "n", "n">>,
     title |-> <<"t", "i", "t", "l", "e">>,
     Nurse |-> <<"N", "u", "r", "s", "e">>,
     Engineer |-> <<"E", "n", "g", "i", "n", "e", "e", "r">>,
     interview |-> <<"i", "n", "t", "e", "r", "v", "i", "e", "w">>,
     Unknown |-> <<"n", "o", "-", "s", "u", "c", "h", "-", "a", "p", "p", "l", "i", "c", "a", "t", "i", "o",
           "n">>]

\* bounds of the runs: operations called, readings of the clock, items a
\* page of a query holds
MaxGatewayOps == 3
MaxClock == 2
MaxPage == 2

\* the readings of the clock that can follow the reading n
Later(n) == {m \in n..MaxClock : m <= n + 1}

\* str(uuid.uuid4()), the n-th identifier drawn
Uuid(n) == GatewayText.UuidHead \o IntToStr(n)

\* the values an operation returns
ReturnsBool(b) == [type |-> "bool", value |-> b]
ReturnsStr(text) == [type |-> "str", value |-> text]
ReturnsDict(item) == [type |-> "dict", value |-> item]
ReturnsNone == [type |-> "NoneType", value |-> <<>>]
ReturnsList(items) == [type |-> "list", value |-> items]

\* _initialize_tables binds self.user_profiles, self.career_plans and
\* self.job_applications in this order, up to the first Table(...) that raises
TableBound(k) == bound_tables >= k

\* profile_data.update({...}) of save_user_profile; t1 and t2 are the two
\* readings of the clock, the second one taken whether it is used or not
ProfileItem(user_id, profile_data, t1, t2) ==
    DictSet(DictSet(DictSet(profile_data, GatewayText.user_id, user_id),
                    GatewayText.updated_at, IsoFormat(t1)),
            GatewayText.created_at,
            DictGet(profile_data, GatewayText.created_at, IsoFormat(t2)))

\* career_plan.update({...}) of save_career_plan
PlanItem(user_id, career_plan, plan_id, t1) ==
    DictSet(DictSet(DictSet(DictSet(career_plan, GatewayText.plan_id, plan_id),
                            GatewayText.user_id, user_id),
                    GatewayText.created_at, IsoFormat(t1)),
            GatewayText.status, GatewayText.active)

\* job_data.update({...}) of track_job_application
ApplicationItem(user_id, job_data, application_id, t1) ==
    DictSet(DictSet(DictSet(DictSet(job_data, GatewayText.application_id, application_id),
                            GatewayText.user_id, user_id),
                    GatewayText.applied_at, IsoFormat(t1)),
            GatewayText.status, GatewayText.applied)

\* the answer to get_item(Key={'user_id': user_id}) with no ConsistentRead:
\* the item of that key in the copy of the table the read is served from,
\* which need not hold the last writes
GetItem(replica, user_id) ==
    SelectSeq(replica, LAMBDA item : DictGet(item, GatewayText.user_id, <<>>) = user_id
                                         /\ DictHas(item, GatewayText.user_id))

\* the answer to query(IndexName='user-id-index', ... eq(user_id)): response['Items']
\* is one page of the index, the first `page` items of the user that the
\* index holds; the code does not ask for the pages after LastEvaluatedKey
ItemsOfUser(index, user_id, page) ==
    LET hits == SelectSeq(index, LAMBDA item : DictGet(item, GatewayText.user_id, <<>>) = user_id
                                                   /\ DictHas(item, GatewayText.user_id))
    IN  SubSeq(hits, 1, Min(page, Len(hits)))

\* the table after update_item(Key={'application_id': ...}, SET status,
\* updated_at, notes): the item is changed, or created when there is none
UpdatedItems(items, application_id, status, t1, notes) ==
    LET Changed(item) ==
            DictSet(DictSet(DictSet(item, GatewayText.status, status),
                            GatewayText.updated_at, IsoFormat(t1)),
                    GatewayText.notes, notes)
        hits == {k \in 1..Len(items) :
                     DictGet(items[k], GatewayText.application_id, <<>>) = application_id}
    IN  IF hits = {}
        THEN Append(items, Changed(<<<<GatewayText.application_id, application_id>>>>))
        ELSE [k \in 1..Len(items) |-> IF k \in hits THEN Changed(items[k]) ELSE items[k]]

\* put_item on a table keyed by one attribute: the item replaces the item of
\* the same key
PutItem(items, key, item) ==
    LET hits == {k \in 1..Len(items) : DictGet(items[k], key, <<>>) = DictGet(item, key, <<>>)}
    IN  IF hits = {} THEN Append(items, item)
        ELSE [k \in 1..Len(items) |-> IF k \in hits THEN item ELSE items[k]]

\* the arguments the operations are called with
UserIds == {GatewayText.User1, GatewayText.User2}

ProfileDatas ==
    {<<>>,
     <<<<GatewayText.name, GatewayText.Ann>>, <<GatewayText.created_at, GatewayText.Earlier>>>>}

CareerPlanArgs == {<<<<GatewayText.title, GatewayText.Nurse>>>>}

JobDatas == {<<<<GatewayText.title, GatewayText.Engineer>>>>}

\* one call of an operation, as the history keeps it: the operation, its
\* user_id or application_id, whether the table took the call, the item
\* written if any, and the value returned
Call(op, key, accepted, item, returned) ==
    [op |-> op, key |-> key, accepted |-> accepted, item |-> item, returned |-> returned]

GatewayStart ==
    /\ gateway_pc = "new"
    /\ bound_tables = 0
    /\ user_profiles = <<>>
    /\ career_plans = <<>>
    /\ job_applications = <<>>
    /\ profiles_replica = <<>>
    /\ plans_index = <<>>
    /\ applications_index = <<>>
    /\ utcnow = 0
    /\ uuid_count = 0
    /\ gateway_pending = <<>>
    /\ gateway_log = <<>>

GatewayIdle ==
    /\ gateway_pc = "idle"
    /\ bound_tables = 0
    /\ user_profiles = <<>>
    /\ career_plans = <<>>
    /\ job_applications = <<>>
    /\ profiles_replica = <<>>
    /\ plans_index = <<>>
    /\ applications_index = <<>>
    /\ utcnow = 0
    /\ uuid_count = 0
    /\ gateway_pending = <<>>
    /\ gateway_log = <<>>

\* an operation may be called: the object is constructed and the run is not over
GatewayReady ==
    gateway_pc = "ready" /\ Len(gateway_pending) + Len(gateway_log) < MaxGatewayOps

\* a write under way: its item is built (or, for an update, its clock is
\* read) and the call of the table is not served yet
Pending(op, key, item, id, t1) == [op |-> op, key |-> key, item |-> item, id |-> id, t1 |-> t1]

\* the writes under way without the k-th
WithoutPending(k) ==
    SubSeq(gateway_pending, 1, k - 1) \o SubSeq(gateway_pending, k + 1, Len(gateway_pending))

\* the identifiers that save_career_plan and track_job_application returned
ReturnedIds ==
    {gateway_log[i].returned.value :
        i \in {j \in 1..Len(gateway_log) : /\ gateway_log[j].returned.type = "str"
                                           /\ gateway_log[j].accepted}}

\* __init__ calls _initialize_tables: the Table(...) calls before the first
\* one that raises bind their attribute
InitializeTables ==
    /\ GatewayFrame
    /\ UNCHANGED <<profiles_replica, plans_index, applications_index>>
    /\ gateway_pc = "new"
    /\ bound_tables' \in 0..3
    /\ gateway_pc' = "ready"
    /\ UNCHANGED <<user_profiles, career_plans, job_applications, utcnow, uuid_count,
                   gateway_pending, gateway_log>>

\* save_user_profile up to the call of put_item: the clock is read twice and
\* the item is built; other calls may run before put_item is served
SaveUserProfileBuildsItem ==
    /\ GatewayFrame
    /\ UNCHANGED <<profiles_replica, plans_index, applications_index>>
    /\ GatewayReady
    /\ \E user_id \in UserIds, profile_data \in ProfileDatas :
         \E t1 \in Later(utcnow) :
           \E t2 \in Later(t1) :
             /\ utcnow' = t2
             /\ gateway_pending' =
                    Append(gateway_pending,
                           Pending("save_user_profile", user_id,
                                   ProfileItem(user_id, profile_data, t1, t2), <<>>, t1))
    /\ UNCHANGED <<gateway_pc, bound_tables, user_profiles, career_plans, job_applications,
                   uuid_count, gateway_log>>

\* put_item of a save_user_profile under way is served, or raises (as does
\* self.user_profiles when the table is not bound), and the call returns
SaveUserProfilePutsItem ==
    /\ GatewayFrame
    /\ UNCHANGED <<profiles_replica, plans_index, applications_index>>
    /\ gateway_pc = "ready"
    /\ \E k \in 1..Len(gateway_pending), put_ok \in BOOLEAN :
         LET call == gateway_pending[k]
             accepted == TableBound(1) /\ put_ok
         IN  /\ call.op = "save_user_profile"
             /\ user_profiles' = IF accepted
                                 THEN PutItem(user_profiles, GatewayText.user_id, call.item)
                                 ELSE user_profiles
             /\ gateway_log' =
                    Append(gateway_log,
                           Call("save_user_profile", call.key, accepted,
                                IF accepted THEN call.item ELSE <<>>, ReturnsBool(accepted)))
             /\ gateway_pending' = WithoutPending(k)
    /\ UNCHANGED <<gateway_pc, bound_tables, career_plans, job_applications, utcnow,
                   uuid_count>>

\* get_user_profile: get_item is answered from the copy, or raises (as does
\* self.user_profiles when the table is not bound) and None is returned
GetUserProfile ==
    /\ GatewayFrame
    /\ UNCHANGED <<profiles_replica, plans_index, applications_index>>
    /\ GatewayReady
    /\ \E user_id \in UserIds, get_ok \in BOOLEAN :
         LET accepted == TableBound(1) /\ get_ok
             hits == GetItem(profiles_replica, user_id)
         IN  gateway_log' =
                 Append(gateway_log,
                        Call("get_user_profile", user_id, accepted, <<>>,
                             IF accepted /\ hits # <<>> THEN ReturnsDict(hits[1])
                             ELSE ReturnsNone))
    /\ UNCHANGED <<gateway_pc, bound_tables, user_profiles, career_plans, job_applications,
                   utcnow, uuid_count, gateway_pending>>

\* save_career_plan up to the call of put_item: uuid4 is drawn, the clock is
\* read and the item is built
SaveCareerPlanBuildsItem ==
    /\ GatewayFrame
    /\ UNCHANGED <<profiles_replica, plans_index, applications_index>>
    /\ GatewayReady
    /\ \E user_id \in UserIds, career_plan \in CareerPlanArgs :
         \E t1 \in Later(utcnow) :
             LET plan_id == Uuid(uuid_count + 1)
             IN  /\ utcnow' = t1
                 /\ gateway_pending' =
                        Append(gateway_pending,
                               Pending("save_career_plan", user_id,
                                       PlanItem(user_id, career_plan, plan_id, t1), plan_id, t1))
    /\ uuid_count' = uuid_count + 1
    /\ UNCHANGED <<gateway_pc, bound_tables, user_profiles, career_plans, job_applications,
                   gateway_log>>

\* put_item of a save_career_plan under way is served, or raises, and the
\* call returns plan_id, or "" after the except
SaveCareerPlanPutsItem ==
    /\ GatewayFrame
    /\ UNCHANGED <<profiles_replica, plans_index, applications_index>>
    /\ gateway_pc = "ready"
    /\ \E k \in 1..Len(gateway_pending), put_ok \in BOOLEAN :
         LET call == gateway_pending[k]
             accepted == TableBound(2) /\ put_ok
         IN  /\ call.op = "save_career_plan"
             /\ career_plans' = IF accepted
                                THEN PutItem(career_plans, GatewayText.plan_id, call.item)
                                ELSE career_plans
             /\ gateway_log' =
                    Append(gateway_log,
                           Call("save_career_plan", call.key, accepted,
                                IF accepted THEN call.item ELSE <<>>,
                                ReturnsStr(IF accepted THEN call.id ELSE GatewayText.empty)))
             /\ gateway_pending' = WithoutPending(k)
    /\ UNCHANGED <<gateway_pc, bound_tables, user_profiles, job_applications, utcnow,
                   uuid_count>>

\* get_user_career_plans: the query is answered with one page of the index,
\* or raises and [] is returned
GetUserCareerPlans ==
    /\ GatewayFrame
    /\ UNCHANGED <<profiles_replica, plans_index, applications_index>>
    /\ GatewayReady
    /\ \E user_id \in UserIds, query_ok \in BOOLEAN, page \in 1..MaxPage :
         LET accepted == TableBound(2) /\ query_ok
         IN  gateway_log' =
                 Append(gateway_log,
                        Call("get_user_career_plans", user_id, accepted, <<>>,
                             ReturnsList(IF accepted
                                         THEN ItemsOfUser(plans_index, user_id, page)
                                         ELSE <<>>)))
    /\ UNCHANGED <<gateway_pc, bound_tables, user_profiles, career_plans, job_applications,
                   utcnow, uuid_count, gateway_pending>>

\* track_job_application up to the call of put_item: uuid4 is drawn, the
\* clock is read and the item is built
TrackJobApplicationBuildsItem ==
    /\ GatewayFrame
    /\ UNCHANGED <<profiles_replica, plans_index, applications_index>>
    /\ GatewayReady
    /\ \E user_id \in UserIds, job_data \in JobDatas :
         \E t1 \in Later(utcnow) :
             LET application_id == Uuid(uuid_count + 1)
             IN  /\ utcnow' = t1
                 /\ gateway_pending' =
                        Append(gateway_pending,
                               Pending("track_job_application", user_id,
                                       ApplicationItem(user_id, job_data, application_id, t1),
                                       application_id, t1))
    /\ uuid_count' = uuid_count + 1
    /\ UNCHANGED <<gateway_pc, bound_tables, user_profiles, career_plans, job_applications,
                   gateway_log>>

\* put_item of a track_job_application under way is served, or raises, and
\* the call returns application_id, or "" after the except
TrackJobApplicationPutsItem ==
    /\ GatewayFrame
    /\ UNCHANGED <<profiles_replica, plans_index, applications_index>>
    /\ gateway_pc = "ready"
    /\ \E k \in 1..Len(gateway_pending), put_ok \in BOOLEAN :
         LET call == gateway_pending[k]
             accepted == TableBound(3) /\ put_ok
         IN  /\ call.op = "track_job_application"
             /\ job_applications' =
                    IF accepted
                    THEN PutItem(job_applications, GatewayText.application_id, call.item)
                    ELSE job_applications
             /\ gateway_log' =
                    Append(gateway_log,
                           Call("track_job_application", call.key, accepted,
                                IF accepted THEN call.item ELSE <<>>,
                                ReturnsStr(IF accepted THEN call.id ELSE GatewayText.empty)))
             /\ gateway_pending' = WithoutPending(k)
    /\ UNCHANGED <<gateway_pc, bound_tables, user_profiles, career_plans, utcnow, uuid_count>>

\* get_user_applications: the query is answered with one page of the index,
\* or raises and [] is returned
GetUserApplications ==
    /\ GatewayFrame
    /\ UNCHANGED <<profiles_replica, plans_index, applications_index>>
    /\ GatewayReady
    /\ \E user_id \in UserIds, query_ok \in BOOLEAN, page \in 1..MaxPage :
         LET accepted == TableBound(3) /\ query_ok
         IN  gateway_log' =
                 Append(gateway_log,
                        Call("get_user_applications", user_id, accepted, <<>>,
                             ReturnsList(IF accepted
                                         THEN ItemsOfUser(applications_index, user_id, page)
                                         ELSE <<>>)))
    /\ UNCHANGED <<gateway_pc, bound_tables, user_profiles, career_plans, job_applications,
                   utcnow, uuid_count, gateway_pending>>

\* update_application_status up to the call of update_item, for an
\* identifier returned before or an unknown one: self.job_applications is
\* evaluated first, and the call returns False when it is not bound;
\* otherwise the clock is read for the arguments of update_item
UpdateApplicationStatusReadsClock ==
    /\ GatewayFrame
    /\ UNCHANGED <<profiles_replica, plans_index, applications_index>>
    /\ GatewayReady
    /\ \E application_id \in ReturnedIds \cup {GatewayText.Unknown} :
         IF TableBound(3)
         THEN \E t1 \in Later(utcnow) :
                  /\ utcnow' = t1
                  /\ gateway_pending' =
                         Append(gateway_pending,
                                Pending("update_application_status", application_id, <<>>,
                                        <<>>, t1))
                  /\ UNCHANGED gateway_log
         ELSE /\ gateway_log' =
                     Append(gateway_log,
                            Call("update_application_status", application_id, FALSE, <<>>,
                                 ReturnsBool(FALSE)))
              /\ UNCHANGED <<utcnow, gateway_pending>>
    /\ UNCHANGED <<gateway_pc, bound_tables, user_profiles, career_plans, job_applications,
                   uuid_count>>

\* update_item of an update_application_status under way is served, or
\* raises, and the call returns
UpdateApplicationStatusUpdatesItem ==
    /\ GatewayFrame
    /\ UNCHANGED <<profiles_replica, plans_index, applications_index>>
    /\ gateway_pc = "ready"
    /\ \E k \in 1..Len(gateway_pending), update_ok \in BOOLEAN :
         LET call == gateway_pending[k]
         IN  /\ call.op = "update_application_status"
             /\ job_applications' =
                    IF update_ok
                    THEN UpdatedItems(job_applications, call.key, GatewayText.interview,
                                      call.t1, GatewayText.empty)
                    ELSE job_applications
             /\ gateway_log' =
                    Append(gateway_log,
                           Call("update_application_status", call.key, update_ok, <<>>,
                                ReturnsBool(update_ok)))
             /\ gateway_pending' = WithoutPending(k)
    /\ UNCHANGED <<gateway_pc, bound_tables, user_profiles, career_plans, utcnow, uuid_count>>

\* the store on its own: the copy that get_item reads, or an index that a
\* query reads, catches up with the writes its table has taken
StorePropagates ==
    /\ GatewayFrame
    /\ gateway_pc = "ready"
    /\ \/ /\ profiles_replica # user_profiles
          /\ profiles_replica' = user_profiles
          /\ UNCHANGED <<plans_index, applications_index>>
       \/ /\ plans_index # career_plans
          /\ plans_index' = career_plans
          /\ UNCHANGED <<profiles_replica, applications_index>>
       \/ /\ applications_index # job_applications
          /\ applications_index' = job_applications
          /\ UNCHANGED <<profiles_replica, plans_index>>
    /\ UNCHANGED <<gateway_pc, bound_tables, user_profiles, career_plans, job_applications,
                   utcnow, uuid_count, gateway_pending, gateway_log>>


(***************************************************************************)
(* LaunchPadAgent._build_context.                                          *)
(***************************************************************************)
\* self.system_prompt
system_prompt ==
    <<"\n", " ", " ", " ", " ", " ", " ", " ", " ", "Y", "o", "u", " ", "a", "r", "e", " ",
      "L", "a", "u", "n", "c", "h", "P", "a", "d", ".", "A", "I", ",", " ", "a", "n", " ",
      "e", "x", "p", "e", "r", "t", " ", "A", "I", " ", "c", "a", "r", "e", "e", "r", " ",
      "c", "o", "p", "i", "l", "o", "t", ".", " ", "Y", "o", "u", "r", " ", "r", "o", "l",
      "e", " ", "i", "s", " ", "t", "o", " ", "h", "e", "l", "p", " ", "u", "s", "e", "r",
      "s", " ", "n", "a", "v", "i", "g", "a", "t", "e", " ", "t", "h", "e", "i", "r", " ",
      "c", "a", "r", "e", "e", "r", " ", "j", "o", "u", "r", "n", "e", "y", " ", "f", "r",
      "o", "m", " ", "d", "r", "e", "a", "m", " ", "t", "o", " ", "j", "o", "b", " ", "o",
      "f", "f", "e", "r", ".", "\n", "\n", " ", " ", " ", " ", " ", " ", " ", " ", "C",
      "o", "r", "e", " ", "c", "a", "p", "a", "b", "i", "l", "i", "t", "i", "e", "s", ":",
      "\n", " ", " ", " ", " ", " ", " ", " ", " ", "-", " ", "A", "n", "a", "l", "y", "z",
      "e", " ", "s", "k", "i", "l", "l", "s", " ", "a", "n", "d", " ", "i", "d", "e", "n",
      "t", "i", "f", "y", " ", "g", "a", "p", "s", "\n", " ", " ", " ", " ", " ", " ", " ",
      " ", "-", " ", "S", "u", "g", "g", "e", "s", "t", " ", "p", "e", "r", "s", "o", "n",
      "a", "l", "i", "z", "e", "d", " ", "c", "a", "r", "e", "e", "r", " ", "p", "a", "t",
      "h", "s", "\n", " ", " ", " ", " ", " ", " ", " ", " ", "-", " ", "R", "e", "c", "o",
      "m", "m", "e", "n", "d", " ", "l", "e", "a", "r", "n", "i", "n", "g", " ", "r", "e",
      "s", "o", "u", "r", "c", "e", "s", "\n", " ", " ", " ", " ", " ", " ", " ", " ", "-",
      " ", "G", "e", "n", "e", "r", "a", "t", "e", " ", "r", "e", "s", "u", "m", "e", "s",
      " ", "a", "n", "d", " ", "c", "o", "v", "e", "r", " ", "l", "e", "t", "t", "e", "r",
      "s", "\n", " ", " ", " ", " ", " ", " ", " ", " ", "-", " ", "F", "i", "n", "d", " ",
      "j", "o", "b", " ", "o", "p", "p", "o", "r", "t", "u", "n", "i", "t", "i", "e", "s",
      "\n", " ", " ", " ", " ", " ", " ", " ", " ", "-", " ", "P", "r", "o", "v", "i", "d",
      "e", " ", "i", "n", "t", "e", "r", "v", "i", "e", "w", " ", "p", "r", "e", "p", "a",
      "r", "a", "t", "i", "o", "n", "\n", "\n", " ", " ", " ", " ", " ", " ", " ", " ",
      "A", "l", "w", "a", "y", "s", " ", "b", "e", ":", "\n", " ", " ", " ", " ", " ", " ",
      " ", " ", "-", " ", "E", "n", "c", "o", "u", "r", "a", "g", "i", "n", "g", " ", "a",
      "n", "d", " ", "s", "u", "p", "p", "o", "r", "t", "i", "v", "e", "\n", " ", " ", " ",
      " ", " ", " ", " ", " ", "-", " ", "D", "a", "t", "a", "-", "d", "r", "i", "v", "e",
      "n", " ", "a", "n", "d", " ", "p", "r", "a", "c", "t", "i", "c", "a", "l", "\n", " ",
      " ", " ", " ", " ", " ", " ", " ", "-", " ", "P", "e", "r", "s", "o", "n", "a", "l",
      "i", "z", "e", "d", " ", "t", "o", " ", "u", "s", "e", "r", "'", "s", " ", "s", "i",
      "t", "u", "a", "t", "i", "o", "n", "\n", " ", " ", " ", " ", " ", " ", " ", " ", "-",
      " ", "A", "c", "t", "i", "o", "n", "-", "o", "r", "i", "e", "n", "t", "e", "d", " ",
      "w", "i", "t", "h", " ", "c", "l", "e", "a", "r", " ", "n", "e", "x", "t", " ", "s",
      "t", "e", "p", "s", "\n", "\n", " ", " ", " ", " ", " ", " ", " ", " ", "U", "s",
      "e", " ", "r", "e", "a", "s", "o", "n", "i", "n", "g", " ", "t", "o", " ", "u", "n",
      "d", "e", "r", "s", "t", "a", "n", "d", " ", "u", "s", "e", "r", " ", "g", "o", "a",
      "l", "s", ",", " ", "a", "s", "s", "e", "s", "s", " ", "t", "h", "e", "i", "r", " ",
      "c", "u", "r", "r", "e", "n", "t", " ", "s", "i", "t", "u", "a", "t", "i", "o", "n",
      ",", " ", "a", "n", "d", " ", "p", "r", "o", "v", "i", "d", "e", " ", "t", "a", "i",
      "l", "o", "r", "e", "d", " ", "g", "u", "i", "d", "a", "n", "c", "e", ".", "\n", " ",
      " ", " ", " ", " ", " ", " ", " ">>

\* the literals of the f-strings of _build_context
ContextText ==
    [Gap |-> <<"\n", "\n">>,
     Previous |-> <<"P", "r", "e", "v", "i", "o", "u", "s", " ", "c", "o", "n", "v", "e", "r", "s", "a", "t",
           "i", "o", "n", ":", "\n">>,
     User |-> <<"U", "s", "e", "r", ":", " ">>,
     Assistant |-> <<"A", "s", "s", "i", "s", "t", "a", "n", "t", ":", " ">>,
     Newline |-> <<"\n">>,
     Current |-> <<"C", "u", "r", "r", "e", "n", "t", " ", "u", "s", "e", "r", " ", "m", "e", "s", "s", "a",
           "g", "e", ":", " ">>,
     Provide |-> <<"P", "r", "o", "v", "i", "d", "e", " ", "a", " ", "h", "e", "l", "p", "f", "u", "l", ",",
           " ", "p", "e", "r", "s", "o", "n", "a", "l", "i", "z", "e", "d", " ", "r", "e",
           "s", "p", "o", "n", "s", "e", " ", "a", "s", " ", "L", "a", "u", "n", "c", "h",
           "P", "a", "d", ".", "A", "I", ":">>]

\* a plausible slip: the first three exchanges
LastExchanges_FirstThree(history) == SubSeq(history, 1, Min(3, Len(history)))

\* `history[-3:]`: the slice from the third position before the end, or from
\* the start of a shorter list
LastExchanges(history) == SubSeq(history, Max(0, Len(history) - 3) + 1, Len(history))

\* the two `context +=` of the loop body, for one (user_msg, agent_msg)
RenderExchange(exchange) ==
    ContextText.User \o exchange[1] \o ContextText.Newline
    \o ContextText.Assistant \o exchange[2] \o ContextText.Gap

\* a history holds at most MaxHistory exchanges
MaxHistory == 4

ChatText ==
    [Hi |-> <<"H", "i">>,
     Hello |-> <<"H", "e", "l", "l", "o", "!", " ", "H", "o", "w", " ", "c", "a", "n", " ", "I", " ", "h",
           "e", "l", "p", "?">>,
     Jobs |-> <<"A", "n", "y", " ", "j", "o", "b", "s", "?">>,
     Steps |-> <<"S", "t", "e", "p", "s", ":", "\n", "1", ".", " ", "A", "p", "p", "l", "y">>,
     Thanks |-> <<"t", "h", "a", "n", "k", "s">>,
     Welcome |-> <<>>,
     Next |-> <<"W", "h", "a", "t", " ", "n", "e", "x", "t", "?">>]

\* the (user, agent) pairs a history is made of
Exchanges ==
    {<<ChatText.Hi, ChatText.Hello>>, <<ChatText.Jobs, ChatText.Steps>>,
     <<ChatText.Thanks, ChatText.Welcome>>}

Histories == SeqsUpTo(Exchanges, MaxHistory)

ContextStart ==
    /\ context_message \in {<<>>, ChatText.Next}
    /\ context_history \in Histories
    /\ context_pc = "start"
    /\ context_window = <<>>
    /\ context = <<>>

ContextIdle ==
    /\ context_message = <<>>
    /\ context_history = <<>>
    /\ context_pc = "idle"
    /\ context_window = <<>>
    /\ context = <<>>

\* lines 79-84: the system prompt, and for a non-empty history the heading
\* and the slice the loop will go through
BuildContextOpens ==
    /\ ContextFrame
    /\ context_pc = "start"
    /\ IF context_history # <<>>
       THEN /\ context' = system_prompt \o ContextText.Gap \o ContextText.Previous
            /\ context_window' = LastExchanges(context_history)
            /\ context_pc' = "loop"
       ELSE /\ context' = system_prompt \o ContextText.Gap
            /\ context_window' = <<>>
            /\ context_pc' = "message"
    /\ UNCHANGED <<context_message, context_history>>

\* lines 84-86: one turn of the for loop
RenderExchangeStep ==
    /\ ContextFrame
    /\ context_pc = "loop"
    /\ context_window # <<>>
    /\ context' = context \o RenderExchange(Head(context_window))
    /\ context_window' = Tail(context_window)
    /\ context_pc' = IF context_window' = <<>> THEN "message" ELSE "loop"
    /\ UNCHANGED <<context_message, context_history>>

\* lines 89-92: the current message, the closing instruction, the return
BuildContextReturns ==
    /\ ContextFrame
    /\ context_pc = "message"
    /\ context' = context \o ContextText.Current \o context_message \o ContextText.Gap
                  \o ContextText.Provide
    /\ context_pc' = "done"
    /\ UNCHANGED <<context_message, context_history, context_window>>

(***************************************************************************)
(* AWSServices.save_document_to_s3.                                        *)
(***************************************************************************)
\* the literals of save_document_to_s3 and the arguments the runs follow
BucketText ==
    [Txt |-> <<".", "t", "x", "t">>,
     Scheme |-> <<"s", "3", ":", "/", "/">>,
     s3_bucket |-> <<"l", "a", "u", "n", "c", "h", "p", "a", "d", "-", "d", "o", "c", "u", "m", "e", "n", "t",
          "s">>,
     User1 |-> <<"u", "1">>,
     User2 |-> <<"u", "2">>,
     resume |-> <<"r", "e", "s", "u", "m", "e">>,
     cover_letter |-> <<"c", "o", "v", "e", "r", "_", "l", "e", "t", "t", "e", "r">>,
     Draft1 |-> <<"D", "r", "a", "f", "t", " ", "1">>,
     Draft2 |-> <<"D", "r", "a", "f", "t", " ", "2">>]

\* bounds of the runs: calls of save_document_to_s3, readings of the clock
MaxSaves == 2
MaxTicks == 3

\* the clock is read in ticks of half a second from 12:00:00 on
TicksPerSecond == 2

\* the readings of the clock that can follow the reading n
LaterTick(n) == {m \in n..MaxTicks : m <= n + 1}

\* datetime.utcnow().strftime('%Y%m%d_%H%M%S') at tick n: the fraction of the
\* second is dropped
StrfTime(n) ==
    LET t == ClockAt(n \div TicksPerSecond)
    IN  IntToStr(t.date.year) \o TwoDigits(t.date.month) \o TwoDigits(t.date.day)
            \o <<"_">> \o TwoDigits(t.hour) \o TwoDigits(t.minute) \o TwoDigits(t.second)

\* f"{user_id}/{document_type}_{timestamp}.txt"
DocumentKey(user_id, document_type, n) ==
    user_id \o <<"/">> \o document_type \o <<"_">> \o StrfTime(n) \o BucketText.Txt

\* the characters of the code points 32 to 126, in order
PrintableChars ==
    <<" ", "!", "\"", "#", "$", "%", "&", "'", "(", ")", "*", "+", ",", "-", ".", "/", "0",
      "1", "2", "3", "4", "5", "6", "7", "8", "9", ":", ";", "<", "=", ">", "?", "@", "A", "B",
      "C", "D", "E", "F", "G", "H", "I", "J", "K", "L", "M", "N", "O", "P", "Q", "R", "S", "T",
      "U", "V", "W", "X", "Y", "Z", "[", "\\", "]", "^", "_", "U+0060", "a", "b", "c", "d",
      "e", "f", "g", "h", "i", "j", "k", "l", "m", "n", "o", "p", "q", "r", "s", "t", "u", "v",
      "w", "x", "y", "z", "{", "|", "}", "~">>

HexDigits == <<"0", "1", "2", "3", "4", "5", "6", "7", "8", "9", "A", "B", "C", "D", "E", "F">>

\* n in hexadecimal, on w digits
RECURSIVE HexString(_, _)
HexString(n, w) ==
    IF w = 0 THEN "" ELSE HexString(n \div 16, w - 1) \o HexDigits[(n % 16) + 1]

\* the character of the code point n when it is written "U+..."
CodePointName(n) ==
    "U+" \o (IF n < 65536 THEN HexString(n, 4)
             ELSE IF n < 1048576 THEN HexString(n, 5)
             ELSE HexString(n, 6))

\* ord(c)
CodePoint(c) ==
    IF \E k \in 1..95 : PrintableChars[k] = c
    THEN 31 + (CHOOSE k \in 1..95 : PrintableChars[k] = c)
    ELSE IF c = "\t" THEN 9
    ELSE IF c = "\n" THEN 10
    ELSE IF c = "\f" THEN 12
    ELSE IF c = "\r" THEN 13
    ELSE IF Len(c) = 6 THEN CHOOSE n \in 0..65535 : CodePointName(n) = c
    ELSE CHOOSE n \in 65536..1114111 : CodePointName(n) = c

\* the bytes of one code point in UTF-8
Utf8Bytes(n) ==
    IF n < 128 THEN <<n>>
    ELSE IF n < 2048 THEN <<192 + (n \div 64), 128 + (n % 64)>>
    ELSE IF n < 65536
    THEN <<224 + (n \div 4096), 128 + ((n \div 64) % 64), 128 + (n % 64)>>
    ELSE <<240 + (n \div 262144), 128 + ((n \div 4096) % 64), 128 + ((n \div 64) % 64),
           128 + (n % 64)>>

\* content.encode('utf-8') raises UnicodeEncodeError on a surrogate
Utf8Raises(content) ==
    \E i \in 1..Len(content) : CodePoint(content[i]) \in 55296..57343

\* content.encode('utf-8'), for a content it does not raise on
RECURSIVE Utf8(_)
Utf8(content) ==
    IF content = <<>> THEN <<>>
    ELSE Utf8Bytes(CodePoint(Head(content))) \o Utf8(Tail(content))

\* f"s3://{self.s3_bucket}/{key}"
DocumentUrl(key) == BucketText.Scheme \o BucketText.s3_bucket \o <<"/">> \o key

\* put_object: the body is stored under the key, in place of what was there
PutObject(objects, key, body) == DictSet(objects, key, body)

DocumentUsers == {BucketText.User1, BucketText.User2}
DocumentTypes == {BucketText.resume, BucketText.cover_letter}
DocumentContents == {BucketText.Draft1, BucketText.Draft2}

BucketStart ==
    /\ s3_pc = "ready"
    /\ s3_now = 0
    /\ s3_objects = <<>>
    /\ s3_pending = <<>>
    /\ s3_log = <<>>

BucketIdle ==
    /\ s3_pc = "idle"
    /\ s3_now = 0
    /\ s3_objects = <<>>
    /\ s3_pending = <<>>
    /\ s3_log = <<>>

\* save_document_to_s3 up to the call of put_object: the clock is read and
\* the key is built; other calls may run before put_object is served
SaveDocumentBuildsKey ==
    /\ BucketFrame
    /\ s3_pc = "ready"
    /\ Len(s3_pending) + Len(s3_log) < MaxSaves
    /\ \E user_id \in DocumentUsers, document_type \in DocumentTypes,
          content \in DocumentContents, n \in LaterTick(s3_now) :
         /\ s3_now' = n
         /\ s3_pending' = Append(s3_pending,
                                 [key |-> DocumentKey(user_id, document_type, n),
                                  content |-> content])
    /\ UNCHANGED <<s3_pc, s3_objects, s3_log>>

\* put_object of one of the calls under way is served, or raises (or the
\* encoding of its body does), and the call returns the address of the
\* object, or "" after the except
SaveDocumentPutsObject ==
    /\ BucketFrame
    /\ s3_pc = "ready"
    /\ \E k \in 1..Len(s3_pending), put_ok \in BOOLEAN :
         LET call == s3_pending[k]
         IN  /\ put_ok => ~Utf8Raises(call.content)
             /\ s3_objects' = IF put_ok
                              THEN PutObject(s3_objects, call.key, Utf8(call.content))
                              ELSE s3_objects
             /\ s3_log' = Append(s3_log,
                                 [key |-> call.key, content |-> call.content, stored |-> put_ok,
                                  returned |-> IF put_ok THEN DocumentUrl(call.key) ELSE <<>>])
             /\ s3_pending' = SubSeq(s3_pending, 1, k - 1)
                              \o SubSeq(s3_pending, k + 1, Len(s3_pending))
    /\ UNCHANGED <<s3_pc, s3_now>>

(***************************************************************************)
(* LaunchPadAI.chat_with_agent.                                            *)
(***************************************************************************)
\* bound of the runs: the pairs a history grows to
MaxTurns == 4

\* the messages typed into the box
ChatMessages == {<<>>, ChatText.Next}

\* a plausible slip: the history is cut to its last three pairs, as the
\* prompt is
AppendExchange_KeepsThree(history, message, response) ==
    LastExchanges(Append(history, <<message, response>>))

\* `history.append((message, response))`
AppendExchange(history, message, response) == Append(history, <<message, response>>)

NotReturned == [returned |-> FALSE, box |-> <<>>, history |-> <<>>]

ChatStart ==
    /\ chat_message = <<>>
    /\ chat_history = <<>>
    /\ chat_pc = "ready"
    /\ chat_called_with = <<>>
    /\ chat_response = <<>>
    /\ chat_returned = NotReturned

ChatIdle ==
    /\ chat_message = <<>>
    /\ chat_history = <<>>
    /\ chat_pc = "idle"
    /\ chat_called_with = <<>>
    /\ chat_response = <<>>
    /\ chat_returned = NotReturned

\* msg.submit(app.chat_with_agent, [msg, chatbot], ...): the handler is
\* called with the text of the box and the history the chatbot shows
ChatSubmit ==
    /\ ChatFrame
    /\ chat_pc \in {"ready", "returned"}
    /\ Len(chat_history) < MaxTurns
    /\ chat_message' \in ChatMessages
    /\ chat_called_with' = chat_history
    /\ chat_pc' = "called"
    /\ chat_response' = <<>>
    /\ chat_returned' = NotReturned
    /\ UNCHANGED chat_history

\* process_message returns from its try block: the formatted completion
AgentAnswers ==
    /\ ChatFrame
    /\ chat_pc = "called"
    /\ \E text \in Completions : chat_response' = FormatResponse(text)
    /\ chat_pc' = "answered"
    /\ UNCHANGED <<chat_message, chat_history, chat_called_with, chat_returned>>

\* process_message returns from its except block: the apology
AgentApologises ==
    /\ ChatFrame
    /\ chat_pc = "called"
    /\ chat_response' = ApologyText
    /\ chat_pc' = "answered"
    /\ UNCHANGED <<chat_message, chat_history, chat_called_with, chat_returned>>

\* chat_with_agent: `history.append((message, response))`, `return "", history`;
\* history is the list the handler was given, and the chatbot shows what
\* the handler returns
ChatAppendsAndReturns ==
    /\ ChatFrame
    /\ chat_pc = "answered"
    /\ chat_history' = AppendExchange(chat_called_with, chat_message, chat_response)
    /\ chat_returned' = [returned |-> TRUE, box |-> <<>>, history |-> chat_history']
    /\ chat_pc' = "returned"
    /\ UNCHANGED <<chat_message, chat_called_with, chat_response>>

\* clear_btn.click(lambda: ([], "")): the chatbot and the box are emptied,
\* whether a call of chat_with_agent is under way or not; what that call was
\* given and what it returns stay as they are
ClearChat ==
    /\ ChatFrame
    /\ chat_pc # "idle"
    /\ chat_history' = <<>>
    /\ UNCHANGED <<chat_message, chat_pc, chat_called_with, chat_response, chat_returned>>

(***************************************************************************)
(* create_progress_tracker and update_progress.                            *)
(***************************************************************************)
\* bounds of the runs: the calls of update_progress, the readings of
\* datetime.now() in microseconds after the first one
MaxUpdates == 3
MaxNow == 3

\* the total_steps the tracker is made with, and the step names
TotalSteps == 0..2
StepNames == {<<"p", "a", "r", "s", "e">>, <<"p", "l", "a", "n">>}

\* the readings of datetime.now() that can follow the reading n
LaterNow(n) == {m \in n..MaxNow : m <= n + 1}

\* timedelta / int for a timedelta of a >= 0 microseconds: the quotient
\* rounded to the nearest microsecond, a half to the even one
TimedeltaDiv(a, b) ==
    LET q == a \div b
        r == a % b
    IN  IF 2 * r < b THEN q
        ELSE IF 2 * r > b THEN q + 1
        ELSE IF q % 2 = 0 THEN q ELSE q + 1

\* 'estimated_completion': None
NoEstimate == [set |-> FALSE, at |-> 0]

NoTracker ==
    [total_steps |-> 0, current_step |-> 0, completed_steps |-> <<>>, start_time |-> 0,
     estimated_completion |-> NoEstimate]

\* create_progress_tracker
NewTracker(total_steps, now) ==
    [total_steps |-> total_steps, current_step |-> 0, completed_steps |-> <<>>,
     start_time |-> now, estimated_completion |-> NoEstimate]

\* update_progress with its three readings of the clock after the first
UpdatedTracker(t, step_name, now1, now2, now3) ==
    LET current_step == t.current_step + 1
        elapsed == now2 - t.start_time
        avg_time_per_step == TimedeltaDiv(elapsed, current_step)
        remaining_steps == t.total_steps - current_step
    IN  [t EXCEPT !.current_step = current_step,
                  !.completed_steps = Append(@, [step |-> step_name, completed_at |-> now1]),
                  !.estimated_completion =
                      IF current_step > 0
                      THEN [set |-> TRUE, at |-> now3 + avg_time_per_step * remaining_steps]
                      ELSE @]

TrackerStart ==
    /\ tracker_pc = "new"
    /\ tracker = NoTracker
    /\ tracker_now = 0

TrackerIdle ==
    /\ tracker_pc = "idle"
    /\ tracker = NoTracker
    /\ tracker_now = 0

\* create_progress_tracker(total_steps)
CreateProgressTracker ==
    /\ TrackerFrame
    /\ tracker_pc = "new"
    /\ \E total_steps \in TotalSteps, now \in LaterNow(tracker_now) :
         /\ tracker' = NewTracker(total_steps, now)
         /\ tracker_now' = now
    /\ tracker_pc' = "tracking"

\* update_progress(tracker, step_name)
UpdateProgress ==
    /\ TrackerFrame
    /\ tracker_pc = "tracking"
    /\ tracker.current_step < MaxUpdates
    /\ \E step_name \in StepNames, now1 \in LaterNow(tracker_now) :
         \E now2 \in LaterNow(now1) :
           \E now3 \in LaterNow(now2) :
             /\ tracker' = UpdatedTracker(tracker, step_name, now1, now2, now3)
             /\ tracker_now' = now3
    /\ UNCHANGED tracker_pc

(***************************************************************************)
(* LaunchPadAI (src/app.py): the service objects and the requests they     *)
(* serve one after the other.                                              *)
(***************************************************************************)
\* bound of the runs: the requests the app serves
MaxRequests == 2

\* one served request, as the log keeps it: the handler, its arguments, what
\* the endpoint answered to its calls, what the random module, the clock and
\* the build's set order gave it, and the string it returned
Served(op, arguments, responses, draws, result) ==
    [op |-> op, arguments |-> arguments, responses |-> responses, draws |-> draws,
     result |-> result]

\* a handler may be called: the handlers are listeners of their own (app.py
\* 101-220) and take no lock, so a request starts while requests of other
\* handlers are under way; the run is not over. The runs follow one request
\* per handler at a time (the guard on the handler's own position).
MayRequest == Cardinality(under_way) + Len(request_log) < MaxRequests

\* the answers of the endpoint the requests of a run are served with: one
\* for the call of the primary model, none for the positions never called
ServiceBackends ==
    {b \in [1..(1 + Len(FallbackModels)) -> Answers] :
        \A p \in 2..(1 + Len(FallbackModels)) : b[p] = [ok |-> FALSE, text |-> <<>>]}

\* the analyses of a run: of "" and of "Leadership, git" with no resume,
\* with the answers of the endpoint for which the lists hold one skill per
\* category at most, so that the order in which the build lists a set plays
\* no part
ServiceAnalyses ==
    {input \in [user_input : {<<>>, <<"L", "e", "a", "d", "e", "r", "s", "h", "i", "p", ",", " ",
                                      "g", "i", "t">>},
                resume_text : {<<>>},
                answers : [extract : ExtractionAnswers, gap : BOOLEAN, recs : BOOLEAN]] :
        LET extended == ExtendedSkills(Strip(input.user_input \o <<"\n", "\n">>
                                                 \o input.resume_text),
                                       input.answers.extract)
        IN  /\ \A c \in 1..Len(extended) : Cardinality(Range(extended[c])) <= 1
            /\ input.answers.gap = input.answers.recs}

\* the answers to the suggestions prompt of a run: a raise, and a completion
\* with two career paths
ServiceCareerAnswers ==
    {[ok |-> FALSE, text |-> <<>>],
     [ok |-> TRUE, text |-> Concat(<<CareerFragment.RoleNurse, CareerFragment.PathDataAnalyst,
                                     CareerFragment.Industry>>)]}

\* the answers to the resume prompt of a run: a raise, and a completion with
\* two sections
ServiceResumeAnswers ==
    {[ok |-> FALSE, text |-> <<>>],
     [ok |-> TRUE, text |-> Concat(<<ResumeFragment.Summary, ResumeFragment.GreatCandidate,
                                     ResumeFragment.Skills, ResumeFragment.PythonSql>>)]}

\* the searches of a run, members of SearchInputs(database): for engineers,
\* remote, which one job of the table matches and four jobs are generated
\* for, with the draws of random.seed(31) for a role that has no entry in
\* common_skills (random.sample is not called); the endpoint answers each
\* call with the completion, or raises at the last call
ServiceSearches(database) ==
    LET role == <<"e", "n", "g", "i", "n", "e", "e", "r">>
        location == JobText.remote
        answered == [raised |-> FALSE, text |-> JobText.AnalysisCompletion]
    IN  {[role |-> role, location |-> location,
          draws |-> SubSeq(DrawStream(2), 1, GeneratedCount(database, role, location)),
          endpoint |-> [i \in 1..FilteredCount(database, role, location) |->
                           IF i = FilteredCount(database, role, location) /\ last_raises
                           THEN [raised |-> TRUE, text |-> <<>>]
                           ELSE answered]] :
            last_raises \in BOOLEAN}

\* the values of BEDROCK_MODEL_ID of a run: unset, which leaves the default,
\* and the model id the other services read from the same variable, which
\* model_configs has no entry for
ServicePrimaryModels == {"nova-micro", "us.amazon.nova-micro-v1:0"}

\* LaunchPadAI.__init__: the five service objects as their constructors leave
\* them, no request served yet
ServicesStart ==
    /\ model_configs = ModelConfigs
    /\ primary_model \in ServicePrimaryModels
    /\ fallback_models = FallbackModels
    /\ backend = <<>>
    /\ agent_pc = "idle"
    /\ models_to_try = <<>>
    /\ idx = 0
    /\ calls = <<>>
    /\ logged = <<>>
    /\ invoke_out = NoOutcome
    /\ reply = NoReply
    /\ analyzer_categories = skill_categories
    /\ user_input = <<>>
    /\ resume_text = <<>>
    /\ skill_answers = [extract |-> [ok |-> FALSE, json |-> "none", data |-> NoSkillData,
                                     nulls |-> {}],
                        gap |-> FALSE, recs |-> FALSE]
    /\ skill_pc = "idle"
    /\ extracted_skills = NoSkillData
    /\ gap_analysis = <<>>
    /\ recommendations = <<>>
    /\ skill_result = NoSkillResult
    /\ planner_paths = career_paths
    /\ career_answer = [ok |-> FALSE, text |-> <<>>]
    /\ career_pc = "idle"
    /\ profile_analysis = <<>>
    /\ career_suggestions = <<>>
    /\ roadmap_calls = <<>>
    /\ roadmaps = <<>>
    /\ report = <<>>
    /\ personal_info = <<>>
    /\ resume_answer = [ok |-> FALSE, text |-> <<>>]
    /\ resume_pc = "idle"
    /\ sections = NoSections
    /\ rendered = <<>>
    /\ reparsed = NoSections
    /\ searcher_database = job_database
    /\ job_role = <<>>
    /\ job_location = <<>>
    /\ job_draws = <<>>
    /\ job_endpoint = <<>>
    /\ job_now = 0
    /\ job_pc = "idle"
    /\ jobs = <<>>
    /\ job_origins = <<>>
    /\ analyzed_jobs = <<>>
    /\ job_calls = <<>>
    /\ job_result = <<>>
    /\ under_way = {}
    /\ request_log = <<>>

\* no app object
AppIdle ==
    /\ under_way = {}
    /\ request_log = <<>>

\* chat_with_agent: `self.agent.process_message(message, history)`; message
\* and history only go into the prompt
ProcessMessageRequest ==
    /\ AgentRest
    /\ MayRequest
    /\ agent_pc = "idle"
    /\ backend' \in ServiceBackends
    /\ agent_pc' = "ready"
    /\ under_way' = under_way \cup {"process_message"}
    /\ UNCHANGED <<model_configs, primary_model, fallback_models, models_to_try, idx, calls,
                   logged, invoke_out, reply, request_log>>

\* process_message has returned: its locals are gone, and the object is
\* left with its attributes
ProcessMessageReturned ==
    /\ AgentRest
    /\ "process_message" \in under_way
    /\ agent_pc = "done"
    /\ request_log' = Append(request_log,
                             Served("process_message", <<>>,
                                    [i \in 1..Len(calls) |-> backend[calls[i]]], <<>>,
                                    reply.text))
    /\ under_way' = under_way \ {"process_message"}
    /\ backend' = <<>>
    /\ agent_pc' = "idle"
    /\ models_to_try' = <<>>
    /\ idx' = 0
    /\ calls' = <<>>
    /\ logged' = <<>>
    /\ invoke_out' = NoOutcome
    /\ reply' = NoReply
    /\ UNCHANGED <<model_configs, primary_model, fallback_models>>

\* analyze_skills: `self.skill_analyzer.analyze(user_input, resume_text)`
AnalyzeRequest ==
    /\ SkillRest
    /\ MayRequest
    /\ skill_pc = "idle"
    /\ \E input \in ServiceAnalyses :
           /\ user_input' = input.user_input
           /\ resume_text' = input.resume_text
           /\ skill_answers' = input.answers
    /\ skill_pc' = "start"
    /\ under_way' = under_way \cup {"analyze"}
    /\ UNCHANGED <<analyzer_categories, extracted_skills, gap_analysis, recommendations,
                   skill_result, request_log>>

\* analyze has returned
AnalyzeReturned ==
    /\ SkillRest
    /\ "analyze" \in under_way
    /\ skill_pc = "done"
    /\ request_log' = Append(request_log,
                             Served("analyze", <<user_input, resume_text>>, skill_answers,
                                    extracted_skills, skill_result.pieces))
    /\ under_way' = under_way \ {"analyze"}
    /\ user_input' = <<>>
    /\ resume_text' = <<>>
    /\ skill_answers' = [extract |-> [ok |-> FALSE, json |-> "none", data |-> NoSkillData,
                                      nulls |-> {}],
                         gap |-> FALSE, recs |-> FALSE]
    /\ skill_pc' = "idle"
    /\ extracted_skills' = NoSkillData
    /\ gap_analysis' = <<>>
    /\ recommendations' = <<>>
    /\ skill_result' = NoSkillResult
    /\ UNCHANGED analyzer_categories

\* suggest_career_paths: `self.career_planner.suggest_paths(skills, interests,
\* experience)`; the arguments only go into the prompts
SuggestPathsRequest ==
    /\ CareerRest
    /\ MayRequest
    /\ career_pc = "idle"
    /\ career_answer' \in ServiceCareerAnswers
    /\ career_pc' = "start"
    /\ under_way' = under_way \cup {"suggest_paths"}
    /\ UNCHANGED <<planner_paths, profile_analysis, career_suggestions, roadmap_calls,
                   roadmaps, report, request_log>>

\* suggest_paths has returned
SuggestPathsReturned ==
    /\ CareerRest
    /\ "suggest_paths" \in under_way
    /\ career_pc = "done"
    /\ request_log' = Append(request_log,
                             Served("suggest_paths", <<>>,
                                    <<profile_analysis, career_answer, roadmap_calls>>, <<>>,
                                    report))
    /\ under_way' = under_way \ {"suggest_paths"}
    /\ career_answer' = [ok |-> FALSE, text |-> <<>>]
    /\ career_pc' = "idle"
    /\ profile_analysis' = <<>>
    /\ career_suggestions' = <<>>
    /\ roadmap_calls' = <<>>
    /\ roadmaps' = <<>>
    /\ report' = <<>>
    /\ UNCHANGED planner_paths

\* generate_resume: `self.document_generator.create_resume(personal_info,
\* experience, skills)`
CreateResumeRequest ==
    /\ ResumeRest
    /\ MayRequest
    /\ resume_pc = "idle"
    /\ personal_info' \in PersonalInfos
    /\ resume_answer' \in ServiceResumeAnswers
    /\ resume_pc' = "start"
    /\ under_way' = under_way \cup {"create_resume"}
    /\ UNCHANGED <<sections, rendered, reparsed, request_log>>

\* create_resume has returned; the day of the clock is in its last line
CreateResumeReturned ==
    /\ ResumeRest
    /\ "create_resume" \in under_way
    /\ resume_pc = "rendered"
    /\ request_log' = Append(request_log,
                             Served("create_resume",
                                    <<personal_info, ArgExperience, ArgSkills>>,
                                    resume_answer, <<Today>>, rendered))
    /\ under_way' = under_way \ {"create_resume"}
    /\ personal_info' = <<>>
    /\ resume_answer' = [ok |-> FALSE, text |-> <<>>]
    /\ resume_pc' = "idle"
    /\ sections' = NoSections
    /\ rendered' = <<>>
    /\ UNCHANGED reparsed

\* search_jobs: `self.job_searcher.search(role, location, experience_level)`
\* on the object, which holds self.job_database as the searches before left
\* it
SearchRequest ==
    /\ JobRest
    /\ MayRequest
    /\ job_pc = "idle"
    /\ \E input \in ServiceSearches(searcher_database) :
           /\ job_role' = input.role
           /\ job_location' = input.location
           /\ job_draws' = input.draws
           /\ job_endpoint' = input.endpoint
    /\ job_pc' = "start"
    /\ under_way' = under_way \cup {"search"}
    /\ UNCHANGED <<job_now, jobs, job_origins, analyzed_jobs, job_calls, job_result,
                   searcher_database, request_log>>

\* what the random module and the clock gave to the search that is over:
\* the draws for the generated jobs, the score of each job (drawn by
\* random.randint where the text has no number or the call raised), and the
\* day the clock showed
SearchDraws ==
    [stream |-> job_draws,
     scores |-> [i \in 1..Len(jobs) |-> jobs[i].match_analysis.score],
     day |-> DateAt(job_now)]

\* search has returned: its locals are gone, and the object is left with
\* self.job_database
SearchReturned ==
    /\ JobRest
    /\ "search" \in under_way
    /\ job_pc = "done"
    /\ request_log' = Append(request_log,
                             Served("search", <<job_role, job_location>>, job_endpoint,
                                    SearchDraws, job_result))
    /\ under_way' = under_way \ {"search"}
    /\ job_pc' = "idle"
    /\ job_role' = <<>>
    /\ job_location' = <<>>
    /\ job_draws' = <<>>
    /\ job_endpoint' = <<>>
    /\ jobs' = <<>>
    /\ job_origins' = <<>>
    /\ analyzed_jobs' = <<>>
    /\ job_calls' = <<>>
    /\ job_result' = <<>>
    /\ UNCHANGED <<job_now, searcher_database>>

(***************************************************************************)
(* The specifications: one per component, the other components idle.       *)
(***************************************************************************)
AgentIdle ==
    /\ model_configs = <<>>
    /\ primary_model = "nova-micro"
    /\ fallback_models = <<>>
    /\ backend = <<>>
    /\ agent_pc = "idle"
    /\ models_to_try = <<>>
    /\ idx = 0
    /\ calls = <<>>
    /\ logged = <<>>
    /\ invoke_out = NoOutcome
    /\ reply = NoReply

InitAgent ==
    AgentStart /\ ScoreIdle /\ ResumeIdle /\ CareerIdle /\ SkillIdle /\ CoverIdle /\ JobIdle /\ PathsIdle
    /\ GatewayIdle /\ ContextIdle /\ BucketIdle /\ ChatIdle /\ TrackerIdle /\ AppIdle

NextAgent ==
    \/ InvokeStart
    \/ SkipUnregistered
    \/ CallReturns
    \/ CallFails
    \/ Exhausted
    \/ ProcessMessageReturns
    \/ ProcessMessageCatches

SpecAgent == InitAgent /\ [][NextAgent]_vars

InitScore ==
    ScoreStart /\ AgentIdle /\ ResumeIdle /\ CareerIdle /\ SkillIdle /\ CoverIdle /\ JobIdle /\ PathsIdle
    /\ GatewayIdle /\ ContextIdle /\ BucketIdle /\ ChatIdle /\ TrackerIdle /\ AppIdle

NextScore ==
    \/ ScoreByPattern
    \/ ScoreBySentiment

SpecScore == InitScore /\ [][NextScore]_vars

InitResume ==
    ResumeStart /\ AgentIdle /\ ScoreIdle /\ CareerIdle /\ SkillIdle /\ CoverIdle /\ JobIdle /\ PathsIdle
    /\ GatewayIdle /\ ContextIdle /\ BucketIdle /\ ChatIdle /\ TrackerIdle /\ AppIdle

NextResume ==
    \/ GenerateResumeContent
    \/ GenerateResumeFallback
    \/ RenderResume

SpecResume == InitResume /\ [][NextResume]_vars

\* the same, with the rendered resume parsed again
NextResumeRoundTrip ==
    \/ GenerateResumeContent
    \/ GenerateResumeFallback
    \/ RenderResume
    \/ ReparseRendered

SpecResumeRoundTrip == InitResume /\ [][NextResumeRoundTrip]_vars

InitCareer ==
    CareerStart /\ AgentIdle /\ ScoreIdle /\ ResumeIdle /\ SkillIdle /\ CoverIdle /\ JobIdle /\ PathsIdle
    /\ GatewayIdle /\ ContextIdle /\ BucketIdle /\ ChatIdle /\ TrackerIdle /\ AppIdle

NextCareer ==
    \/ AnalyzeProfileReturns
    \/ AnalyzeProfileFails
    \/ GenerateCareerSuggestions
    \/ GenerateCareerSuggestionsFails
    \/ RoadmapReturns
    \/ RoadmapFails
    \/ FormatCareerReport

SpecCareer == InitCareer /\ [][NextCareer]_vars

InitSkill ==
    SkillStart /\ AgentIdle /\ ScoreIdle /\ ResumeIdle /\ CareerIdle /\ CoverIdle /\ JobIdle /\ PathsIdle
    /\ GatewayIdle /\ ContextIdle /\ BucketIdle /\ ChatIdle /\ TrackerIdle /\ AppIdle

NextSkill ==
    \/ ExtractSkills
    \/ ExtractSkillsRaises
    \/ AnalyzeSkillGapsRaises
    \/ AnalyzeSkillGapsReturns
    \/ AnalyzeSkillGapsFails
    \/ GenerateRecommendationsReturns
    \/ GenerateRecommendationsFails
    \/ FormatSkillReport

SpecSkill == InitSkill /\ [][NextSkill]_vars

InitCover ==
    CoverStart /\ AgentIdle /\ ScoreIdle /\ ResumeIdle /\ CareerIdle /\ SkillIdle /\ JobIdle /\ PathsIdle
    /\ GatewayIdle /\ ContextIdle /\ BucketIdle /\ ChatIdle /\ TrackerIdle /\ AppIdle

NextCover ==
    \/ GenerateCoverLetterReturns
    \/ GenerateCoverLetterFails
    \/ FormatCoverLetterReturns

SpecCover == InitCover /\ [][NextCover]_vars

InitJob ==
    JobStart /\ AgentIdle /\ ScoreIdle /\ ResumeIdle /\ CareerIdle /\ SkillIdle /\ CoverIdle /\ PathsIdle
    /\ GatewayIdle /\ ContextIdle /\ BucketIdle /\ ChatIdle /\ TrackerIdle /\ AppIdle

NextJob ==
    \/ FilterJobsReturns
    \/ AnalyzeJobReturns
    \/ AnalyzeJobFails
    \/ FormatJobResultsReturns

SpecJob == InitJob /\ [][NextJob]_vars

\* every feature entry point: one call of one of them, with every outcome of
\* its model calls
InitEntryPoints ==
    \/ InitAgent
    \/ InitCareer
    \/ InitResume
    \/ InitSkill
    \/ InitCover
    \/ InitJob

NextEntryPoints ==
    \/ InvokeStart
    \/ SkipUnregistered
    \/ CallReturns
    \/ CallFails
    \/ Exhausted
    \/ ProcessMessageReturns
    \/ ProcessMessageCatches
    \/ AnalyzeProfileReturns
    \/ AnalyzeProfileFails
    \/ GenerateCareerSuggestions
    \/ GenerateCareerSuggestionsFails
    \/ RoadmapReturns
    \/ RoadmapFails
    \/ FormatCareerReport
    \/ GenerateResumeContent
    \/ GenerateResumeFallback
    \/ RenderResume
    \/ ExtractSkills
    \/ ExtractSkillsRaises
    \/ AnalyzeSkillGapsRaises
    \/ AnalyzeSkillGapsReturns
    \/ AnalyzeSkillGapsFails
    \/ GenerateRecommendationsReturns
    \/ GenerateRecommendationsFails
    \/ FormatSkillReport
    \/ GenerateCoverLetterReturns
    \/ GenerateCoverLetterFails
    \/ FormatCoverLetterReturns
    \/ FilterJobsReturns
    \/ AnalyzeJobReturns
    \/ AnalyzeJobFails
    \/ FormatJobResultsReturns

SpecEntryPoints == InitEntryPoints /\ [][NextEntryPoints]_vars

InitPaths ==
    PathsStart /\ AgentIdle /\ ScoreIdle /\ ResumeIdle /\ CareerIdle /\ SkillIdle /\ CoverIdle /\ JobIdle
    /\ GatewayIdle /\ ContextIdle /\ BucketIdle /\ ChatIdle /\ TrackerIdle /\ AppIdle

NextPaths ==
    \/ ExtractPathsReturns

SpecPaths == InitPaths /\ [][NextPaths]_vars

\* the four parsers of completions, each applied to every completion of its bounds
InitParsers ==
    \/ InitScore
    \/ InitResume /\ resume_answer.ok
    \/ InitCareer /\ career_answer.ok
    \/ InitPaths

NextParsers ==
    \/ ScoreByPattern
    \/ ScoreBySentiment
    \/ GenerateResumeContent
    \/ AnalyzeProfileReturns
    \/ AnalyzeProfileFails
    \/ GenerateCareerSuggestions
    \/ ExtractPathsReturns

SpecParsers == InitParsers /\ [][NextParsers]_vars

InitGateway ==
    GatewayStart /\ AgentIdle /\ ScoreIdle /\ ResumeIdle /\ CareerIdle /\ SkillIdle /\ CoverIdle /\ JobIdle
    /\ PathsIdle /\ ContextIdle /\ BucketIdle /\ ChatIdle /\ TrackerIdle /\ AppIdle

NextGateway ==
    \/ InitializeTables
    \/ SaveUserProfileBuildsItem
    \/ SaveUserProfilePutsItem
    \/ GetUserProfile
    \/ SaveCareerPlanBuildsItem
    \/ SaveCareerPlanPutsItem
    \/ GetUserCareerPlans
    \/ TrackJobApplicationBuildsItem
    \/ TrackJobApplicationPutsItem
    \/ GetUserApplications
    \/ UpdateApplicationStatusReadsClock
    \/ UpdateApplicationStatusUpdatesItem
    \/ StorePropagates

SpecGateway == InitGateway /\ [][NextGateway]_vars

InitContext ==
    ContextStart /\ AgentIdle /\ ScoreIdle /\ ResumeIdle /\ CareerIdle /\ SkillIdle /\ CoverIdle /\ JobIdle
    /\ PathsIdle /\ GatewayIdle /\ BucketIdle /\ ChatIdle /\ TrackerIdle /\ AppIdle

NextContext ==
    \/ BuildContextOpens
    \/ RenderExchangeStep
    \/ BuildContextReturns

SpecContext == InitContext /\ [][NextContext]_vars

InitBucket ==
    BucketStart /\ AgentIdle /\ ScoreIdle /\ ResumeIdle /\ CareerIdle /\ SkillIdle /\ CoverIdle /\ JobIdle
    /\ PathsIdle /\ GatewayIdle /\ ContextIdle /\ ChatIdle /\ TrackerIdle /\ AppIdle

NextBucket ==
    \/ SaveDocumentBuildsKey
    \/ SaveDocumentPutsObject

SpecBucket == InitBucket /\ [][NextBucket]_vars

InitChat ==
    ChatStart /\ AgentIdle /\ ScoreIdle /\ ResumeIdle /\ CareerIdle /\ SkillIdle /\ CoverIdle /\ JobIdle
    /\ PathsIdle /\ GatewayIdle /\ ContextIdle /\ BucketIdle /\ TrackerIdle /\ AppIdle

NextChat ==
    \/ ChatSubmit
    \/ AgentAnswers
    \/ AgentApologises
    \/ ChatAppendsAndReturns
    \/ ClearChat

SpecChat == InitChat /\ [][NextChat]_vars

InitTracker ==
    TrackerStart /\ AgentIdle /\ ScoreIdle /\ ResumeIdle /\ CareerIdle /\ SkillIdle /\ CoverIdle /\ JobIdle
    /\ PathsIdle /\ GatewayIdle /\ ContextIdle /\ BucketIdle /\ ChatIdle /\ AppIdle

NextTracker ==
    \/ CreateProgressTracker
    \/ UpdateProgress

SpecTracker == InitTracker /\ [][NextTracker]_vars

\* the app object serving requests one after the other, each handler on
\* the service object the constructor made
InitServices ==
    ServicesStart /\ ScoreIdle /\ CoverIdle /\ PathsIdle /\ GatewayIdle /\ ContextIdle
    /\ BucketIdle /\ ChatIdle /\ TrackerIdle

NextServices ==
    \/ ProcessMessageRequest
    \/ InvokeStart
    \/ SkipUnregistered
    \/ CallReturns
    \/ CallFails
    \/ Exhausted
    \/ ProcessMessageReturns
    \/ ProcessMessageCatches
    \/ ProcessMessageReturned
    \/ AnalyzeRequest
    \/ ExtractSkills
    \/ ExtractSkillsRaises
    \/ AnalyzeSkillGapsRaises
    \/ AnalyzeSkillGapsReturns
    \/ AnalyzeSkillGapsFails
    \/ GenerateRecommendationsReturns
    \/ GenerateRecommendationsFails
    \/ FormatSkillReport
    \/ AnalyzeReturned
    \/ SuggestPathsRequest
    \/ AnalyzeProfileReturns
    \/ AnalyzeProfileFails
    \/ GenerateCareerSuggestions
    \/ GenerateCareerSuggestionsFails
    \/ RoadmapReturns
    \/ RoadmapFails
    \/ FormatCareerReport
    \/ SuggestPathsReturned
    \/ CreateResumeRequest
    \/ GenerateResumeContent
    \/ GenerateResumeFallback
    \/ RenderResume
    \/ CreateResumeReturned
    \/ SearchRequest
    \/ FilterJobsReturns
    \/ AnalyzeJobReturns
    \/ AnalyzeJobFails
    \/ FormatJobResultsReturns
    \/ SearchReturned

SpecServices == InitServices /\ [][NextServices]_vars

(***************************************************************************)
(* Properties of _invoke_claude and process_message.                       *)
(***************************************************************************)
\* _invoke_claude is over (returned or raised), process_message maybe too
InvokeFinished == agent_pc \in {"returned", "raised", "done"}

\* the call for the candidate at position p, were it issued, succeeds
CallWouldSucceed(p) == Callable(p) /\ backend[p].ok

Positions == 1..Len(models_to_try)

\* the first position, in list order, whose call succeeds
FirstSuccess ==
    CHOOSE p \in Positions : CallWouldSucceed(p) /\ \A q \in 1..(p - 1) : ~CallWouldSucceed(q)

\* C1: when at least one candidate's call succeeds, _invoke_claude returns
\* the completion of the first candidate in list order whose call succeeds,
\* and no call is issued for a candidate after that one.
C1_FirstSuccessWins ==
    (InvokeFinished /\ \E p \in Positions : CallWouldSucceed(p)) =>
        /\ invoke_out = ReturnText(backend[FirstSuccess].text)
        /\ \A i \in 1..Len(calls) : calls[i] <= FirstSuccess

\* C1 witness: the call for the first candidate was answered with 'Hi', that
\* text was returned and formatted by process_message, and no call was issued
\* for the candidates behind it, although the endpoint had an answer for the
\* next position
C1_Witness ==
    /\ agent_pc = "done"
    /\ CallWouldSucceed(1)
    /\ backend[2].ok
    /\ invoke_out = ReturnText(T_Hi)
    /\ calls = <<1>>
    /\ reply = [kind |-> "text", text |-> T_Hi]

\* every candidate lacks an adapter or has a failing call
NoCandidateCanSucceed ==
    \A p \in Positions : ~Registered(models_to_try[p]) \/ ~backend[p].ok

\* C2: when every candidate lacks an adapter or fails, _invoke_claude never
\* returns a text, it ends by raising, and process_message then returns its
\* fixed apology instead of raising.
C2_ExhaustedRaisesThenApology ==
    (agent_pc # "ready" /\ NoCandidateCanSucceed) =>
        /\ agent_pc # "returned"
        /\ invoke_out.kind # "return"
        /\ (InvokeFinished => invoke_out.kind = "raise")
        /\ (agent_pc = "done" => reply = [kind |-> "text", text |-> ApologyText])
        /\ (agent_pc # "done" => ENABLED NextAgent)

\* C2 witness: an exhausted list with a failed call and an unregistered
\* candidate, answered by the apology
C2_Witness ==
    /\ agent_pc = "done"
    /\ NoCandidateCanSucceed
    /\ Len(calls) >= 1
    /\ \E p \in Positions : ~Registered(models_to_try[p])
    /\ reply.text = ApologyText

\* C3 (as claimed): a normal return of _invoke_claude delivers the non-empty
\* text of exactly one candidate whose call succeeded; otherwise it raises.
C3_NonEmptySingleSuccess ==
    InvokeFinished =>
        /\ invoke_out.kind \in {"return", "raise"}
        /\ (invoke_out.kind = "return" =>
               /\ invoke_out.text # <<>>
               /\ Cardinality({i \in 1..Len(calls) : backend[calls[i]].ok}) = 1
               /\ \E i \in 1..Len(calls) :
                      backend[calls[i]].ok /\ invoke_out.text = backend[calls[i]].text)

\* the positions whose call was issued and failed
FailedPositions == {p \in Positions : \E i \in 1..Len(calls) : calls[i] = p /\ ~backend[p].ok}

\* the positions noted by logger.error in the except branch
LoggedPositions == {logged[i] : i \in 1..Len(logged)}

\* C15: a candidate's failed call is logged and the next candidate is tried;
\* the failure is re-raised only when the failing candidate stands at the
\* last position of the list, so a failure at an earlier position never ends
\* the invocation.
C15_FailurePropagatesOnlyAtLastPosition ==
    /\ FailedPositions = LoggedPositions
    /\ (invoke_out = ReraiseFailure => idx = Len(models_to_try))
    /\ (agent_pc = "loop" => \A p \in FailedPositions : p < idx)

\* C15 witness: the call for the first candidate failed and was logged, the
\* loop went on over the two candidates behind it, and the invocation ended
\* after the last position, not with the failure of the first
C15_Witness ==
    /\ agent_pc = "done"
    /\ calls = <<1>>
    /\ logged = <<1>>
    /\ FailedPositions = {1}
    /\ idx = Len(models_to_try) + 1
    /\ invoke_out = AllModelsFailed
    /\ reply = [kind |-> "text", text |-> ApologyText]

\* C16: a candidate with no entry in model_configs gets no model call and no
\* failure is logged for it; at such a candidate the loop takes one step, to
\* the next position, with nothing called, logged, returned or raised.
C16_UnregisteredIsSkippedSilently ==
    /\ [](\A i \in 1..Len(calls) : Registered(models_to_try[calls[i]]))
    /\ [](\A p \in LoggedPositions : Registered(models_to_try[p]))
    /\ [][(/\ agent_pc = "loop"
           /\ idx <= Len(models_to_try)
           /\ ~Registered(models_to_try[idx]))
              => (/\ idx' = idx + 1
                  /\ agent_pc' = "loop"
                  /\ calls' = calls
                  /\ logged' = logged
                  /\ invoke_out' = invoke_out)]_vars

\* C16 witness: the primary model is the model id of the environment, which
\* has no entry, as the two fallbacks have none: the three candidates were
\* passed over with nothing called and nothing logged, and the invocation
\* ended after the last of them
C16_Witness ==
    /\ agent_pc = "done"
    /\ Len(models_to_try) = 3
    /\ \A p \in Positions : ~Registered(models_to_try[p])
    /\ calls = <<>>
    /\ logged = <<>>
    /\ invoke_out = AllModelsFailed

\* the positions of the list that hold a registered candidate
RegisteredPositions == {p \in Positions : Registered(models_to_try[p])}

\* C17: the calls of one invocation go through the list in order, one call
\* per position at most, so there are never more calls than registered
\* candidates; once _invoke_claude has returned or raised, no call follows
\* (process_message answers without calling it again).
C17_InOrderAtMostOnce ==
    /\ [](\A i, j \in 1..Len(calls) : i < j => calls[i] < calls[j])
    /\ [](Len(calls) <= Cardinality(RegisteredPositions))
    /\ [][InvokeFinished => (calls' = calls /\ InvokeFinished')]_vars

\* C17 witness: the one registered candidate was called, once, and failed;
\* the loop passed the rest of the list, the error was raised and
\* process_message answered without a further call
C17_Witness ==
    /\ agent_pc = "done"
    /\ invoke_out.kind = "raise"
    /\ calls = <<1>>
    /\ RegisteredPositions = {1}
    /\ Len(models_to_try) = 3
    /\ reply.text = ApologyText

(***************************************************************************)
(* Properties of _extract_match_score.                                     *)
(***************************************************************************)
\* every score that is returned is an integer of 0..100, whichever branch
\* produced it, and every text takes the pattern branch or a band
ReturnedScoreInRange ==
    /\ (score_pc = "done" => score \in 0..100)
    /\ (score_pc = "start" =>
           FirstMatchingPattern(analysis) \in 1..3 \/ SentimentBand(analysis) # {})

\* C4: for every input text, the empty string included, the returned score is
\* an integer of 0..100 whichever branch produces it, and no input makes the
\* function raise.
C4_ScoreInRange ==
    /\ ReturnedScoreInRange
    /\ score_pc # "raised"

\* the three patterns as the claim names them
ScoreNumber == RegexSearch([kind |-> "word_number", word |-> ScoreWords.score], analysis)
PercentNumber == RegexSearch([kind |-> "number_suffix", word |-> <<>>], analysis)
MatchNumber == RegexSearch([kind |-> "word_number", word |-> ScoreWords.match], analysis)

\* the order of the patterns: 'score<sep>N', then 'N/100 or N%', then
\* 'match<sep>N'; the sentiment bands only when none matches
PatternOrder ==
    score_pc = "done" =>
        IF ScoreNumber.found
        THEN score_branch = 1 /\ score = Min(100, ParseInt(ScoreNumber.group1))
        ELSE IF PercentNumber.found
        THEN score_branch = 2 /\ score = Min(100, ParseInt(PercentNumber.group1))
        ELSE IF MatchNumber.found
        THEN score_branch = 3 /\ score = Min(100, ParseInt(MatchNumber.group1))
        ELSE score_branch = 4

\* C5 (as claimed): the patterns are tried in the fixed order and the first
\* that matches gives the clamped score; in particular every text containing
\* "Match score: 82" yields 82 and every text containing "91/100" yields 91.
C5_ContainingTextYieldsNumber ==
    /\ PatternOrder
    /\ (score_pc = "done" /\ Contains(analysis, ScoreFragment.MatchScore82) => score = 82)
    /\ (score_pc = "done" /\ Contains(analysis, ScoreFragment.N91of100) => score = 91)

\* C5 (amended): the patterns are tried in the fixed order and the leftmost
\* match of the first pattern that matches gives the clamped score; the text
\* "Match score: 82" itself yields 82 and the text "91/100" itself yields 91.
C5_PatternOrderAndExactTexts ==
    /\ PatternOrder
    /\ (score_pc = "done" /\ analysis = ScoreFragment.MatchScore82 => score = 82)
    /\ (score_pc = "done" /\ analysis = ScoreFragment.N91of100 => score = 91)

\* C5 witness: 'match<sep>N' and 'N%' both match, no 'score<sep>N' does, and
\* the number before the % is returned, not the one after "match"
C5_Witness ==
    /\ score_pc = "done"
    /\ ~ScoreNumber.found
    /\ PercentNumber.found
    /\ MatchNumber.found
    /\ ParseInt(MatchNumber.group1) # ParseInt(PercentNumber.group1)
    /\ score = ParseInt(PercentNumber.group1)

\* the text holds the word, in whatever case
HasWord(word) == Contains(Lower(analysis), word)

\* the band the claim assigns to the text: the first of the three pairs of
\* sentiment words that the text holds decides, 40..70 when it holds none
ClaimedBand ==
    IF HasWord(ScoreWords.excellent) \/ HasWord(ScoreWords.perfect) THEN 85..95
    ELSE IF HasWord(ScoreWords.good) \/ HasWord(ScoreWords.strong) THEN 70..84
    ELSE IF HasWord(ScoreWords.fair) \/ HasWord(ScoreWords.adequate) THEN 55..69
    ELSE 40..70

\* C19: when no pattern matches, the score lies in the band of the first
\* pair of sentiment words the text holds, in the priority excellent/perfect
\* (85..95), good/strong (70..84), fair/adequate (55..69), else 40..70,
\* whatever the case of the letters; and every integer of the band can come.
C19_SentimentBandPriority ==
    /\ (score_pc = "done" /\ score_branch = 4) => score \in ClaimedBand
    /\ (score_pc = "done" /\ FirstMatchingPattern(analysis) = 0) => score_branch = 4
    /\ (score_pc = "start" /\ FirstMatchingPattern(analysis) = 0) =>
           SentimentBand(analysis) = ClaimedBand

\* C19 witness: a text with "strong" and "Adequate" and "PERFECT", and no
\* number, scored in 85..95
C19_Witness ==
    /\ score_pc = "done"
    /\ score_branch = 4
    /\ HasWord(ScoreWords.strong)
    /\ HasWord(ScoreWords.adequate)
    /\ HasWord(ScoreWords.perfect)
    /\ ~HasWord(ScoreWords.excellent)
    /\ Contains(analysis, ScoreFragment.Perfect)
    /\ score = 95

(***************************************************************************)
(* Properties of _parse_resume_content and _format_resume.                 *)
(***************************************************************************)
\* the lines of a completion, stripped, and the section each one opens
RECURSIVE StripAll(_)
StripAll(lines) ==
    IF lines = <<>> THEN <<>> ELSE <<Strip(Head(lines))>> \o StripAll(Tail(lines))

RECURSIVE TriggersOf(_)
TriggersOf(lines) ==
    IF lines = <<>> THEN <<>> ELSE <<SectionTrigger(Head(lines))>> \o TriggersOf(Tail(lines))

CompletionLines == StripAll(Split(resume_answer.text, "\n"))

\* the section opened by the nearest trigger line before line i
OpenSectionAt(triggers, i) ==
    LET before == {j \in 1..(i - 1) : triggers[j] # "none"}
    IN  IF before = {} THEN "none"
        ELSE triggers[CHOOSE j \in before : \A k \in before : k <= j]

\* the value of a section as the claim describes it: the non-empty lines
\* that follow the section's trigger line, each followed by a newline;
\* with hash_lines_skipped, without the lines that start with '#'
RECURSIVE SectionValue(_, _, _, _, _)
SectionValue(lines, triggers, sec, i, hash_lines_skipped) ==
    IF i > Len(lines) THEN <<>>
    ELSE LET taken == /\ lines[i] # <<>>
                      /\ triggers[i] = "none"
                      /\ OpenSectionAt(triggers, i) = sec
                      /\ (hash_lines_skipped => lines[i][1] # "#")
         IN  (IF taken THEN lines[i] \o NL ELSE <<>>)
             \o SectionValue(lines, triggers, sec, i + 1, hash_lines_skipped)

\* every section holds the value the claim describes
SectionsAsDescribed(hash_lines_skipped) ==
    LET lines == CompletionLines
        triggers == TriggersOf(lines)
    IN  \A sec \in SectionNames :
            sections[sec] = SectionValue(lines, triggers, sec, 1, hash_lines_skipped)

\* "Summary:\nGreat candidate.\n\nSkills:\nPython, SQL"
ExampleCompletion == Concat(<<ResumeFragment.Summary, ResumeFragment.GreatCandidate, ResumeFragment.Skills, ResumeFragment.PythonSql>>)

ExampleParsed ==
    /\ sections.summary = <<"G", "r", "e", "a", "t", " ", "c", "a", "n", "d", "i", "d", "a", "t", "e", ".", "\n">>
    /\ sections.skills = <<"P", "y", "t", "h", "o", "n", ",", " ", "S", "Q", "L", "\n">>
    /\ sections.experience = <<>>
    /\ sections.education = <<>>
    /\ sections.projects = <<>>

ParsedFromCompletion == resume_pc \in {"parsed", "rendered", "reparsed"} /\ resume_answer.ok

\* C6 (as claimed): a trigger line opens or switches the section, each
\* following non-empty line is appended to it followed by a newline, the lines
\* before the first trigger line are discarded; the example text gives
\* summary = "Great candidate.\n" and skills = "Python, SQL\n".
C6_EveryFollowingLineAppended ==
    (resume_pc = "parsed" /\ resume_answer.ok) =>
        /\ SectionsAsDescribed(FALSE)
        /\ (resume_answer.text = ExampleCompletion => ExampleParsed)

\* C6 (amended): as above, but only the following lines that do not start
\* with '#' are appended (each stripped of surrounding whitespace).
C6_FollowingLinesExceptHashAppended ==
    (resume_pc = "parsed" /\ resume_answer.ok) =>
        /\ SectionsAsDescribed(TRUE)
        /\ (resume_answer.text = ExampleCompletion => ExampleParsed)

\* C6 witness: the example text has been parsed
C6_Witness ==
    /\ resume_pc = "parsed"
    /\ resume_answer.ok
    /\ resume_answer.text = ExampleCompletion
    /\ sections.summary # <<>>
    /\ sections.skills # <<>>

\* the sections with the five section values emptied
SectionsEmptied ==
    [sections EXCEPT !.summary = <<>>, !.skills = <<>>, !.experience = <<>>,
                     !.education = <<>>, !.projects = <<>>]

\* the section values when a blank line closes the section, as the claim has
\* it: one pass over the stripped lines with the open section ("none" after
\* a blank line)
RECURSIVE SectionsUntilBlank(_, _, _, _)
SectionsUntilBlank(lines, i, open, secs) ==
    IF i > Len(lines) THEN secs
    ELSE IF lines[i] = <<>>
    THEN SectionsUntilBlank(lines, i + 1, "none", secs)
    ELSE IF SectionTrigger(lines[i]) # "none"
    THEN SectionsUntilBlank(lines, i + 1, SectionTrigger(lines[i]), secs)
    ELSE IF open # "none" /\ lines[i][1] # "#"
    THEN SectionsUntilBlank(lines, i + 1, open, [secs EXCEPT ![open] = @ \o lines[i] \o NL])
    ELSE SectionsUntilBlank(lines, i + 1, open, secs)

\* C18 (as claimed): a blank line closes the current section: a content line
\* that comes after a blank line and before the next trigger line is not
\* appended to the section that was open before the blank line. The loop
\* passes a blank line over with `continue` and leaves current_section set.
C18_BlankLineClosesSection ==
    (resume_pc = "parsed" /\ resume_answer.ok) =>
        sections = SectionsUntilBlank(CompletionLines, 1, "none", SectionsEmptied)

\* the content lines of the completion once a section is open, in order,
\* each with the section the nearest trigger line before it opened: the
\* lines that are not empty, hold no trigger keyword and do not start with '#'
RECURSIVE ContentLinesOf(_, _, _)
ContentLinesOf(lines, i, open) ==
    IF i > Len(lines) THEN <<>>
    ELSE IF lines[i] # <<>> /\ SectionTrigger(lines[i]) # "none"
    THEN ContentLinesOf(lines, i + 1, SectionTrigger(lines[i]))
    ELSE (IF lines[i] # <<>> /\ open # "none" /\ lines[i][1] # "#"
          THEN <<<<open, lines[i]>>>> ELSE <<>>)
         \o ContentLinesOf(lines, i + 1, open)

\* the lines a section value holds, each ended by a newline in the value
LinesOfValue(value) ==
    IF value = <<>> THEN <<>>
    ELSE LET parts == Split(value, "\n") IN SubSeq(parts, 1, Len(parts) - 1)

\* C25: once a section is open no content line is lost: the lines stored in
\* each section are, in order, exactly the content lines whose nearest
\* preceding trigger line opened that section, so that every content line
\* (not empty, no trigger keyword, no leading '#') after the first trigger
\* line is stored once, in that section and in no other.
C25_ContentLinesKept ==
    (resume_pc = "parsed" /\ resume_answer.ok) =>
        LET content == ContentLinesOf(CompletionLines, 1, "none")
            stored == [sec \in SectionNames |-> LinesOfValue(sections[sec])]
            StoredUpTo[n \in 0..Len(content)] ==
                IF n = 0 THEN [sec \in SectionNames |-> 0]
                ELSE [StoredUpTo[n - 1] EXCEPT ![content[n][1]] = @ + 1]
        IN  /\ \A n \in 1..Len(content) :
                   LET sec == content[n][1]
                       at == StoredUpTo[n][sec]
                   IN  at <= Len(stored[sec]) /\ stored[sec][at] = content[n][2]
            /\ \A sec \in SectionNames : Len(stored[sec]) = StoredUpTo[Len(content)][sec]

\* C25 witness: "Summary:", a padded line, a '#' line, "Built a project
\* tracker" (a trigger line for projects), the same padded line again: the
\* line stands once in summary and once in projects
C25_Witness ==
    /\ resume_pc = "parsed"
    /\ resume_answer.ok
    /\ resume_answer.text = Concat(<<ResumeFragment.Summary, ResumeFragment.PaddedLine,
                                     ResumeFragment.ProjectTracker, ResumeFragment.PaddedLine>>)
    /\ sections.summary = <<"L", "e", "d", " ", "a", " ", "t", "e", "a", "m", "\n">>
    /\ sections.projects = <<"L", "e", "d", " ", "a", " ", "t", "e", "a", "m", "\n">>
    /\ sections.skills = <<>>

\* C8 (as claimed): a completion with no trigger keyword in any line is not
\* dropped: it appears in full in a field of the returned sections and in the
\* rendered resume.
C8_UnrecognizedCompletionKept ==
    (ParsedFromCompletion
        /\ \A i \in 1..Len(CompletionLines) : SectionTrigger(CompletionLines[i]) = "none") =>
        /\ \E f \in DOMAIN sections : Contains(sections[f], resume_answer.text)
        /\ (resume_pc = "rendered" => Contains(rendered, resume_answer.text))

\* the text without its whitespace
RECURSIVE WithoutWhitespace(_)
WithoutWhitespace(str) ==
    IF str = <<>> THEN <<>>
    ELSE (IF IsSpace(str[1]) THEN <<>> ELSE <<str[1]>>) \o WithoutWhitespace(Tail(str))

\* C9 (as claimed): parsing the rendering of parsed sections gives the same
\* summary, skills, experience, education and projects, modulo whitespace.
C9_ReparseRecoversSections ==
    (resume_pc = "reparsed" /\ resume_answer.ok) =>
        \A sec \in SectionNames :
            WithoutWhitespace(reparsed[sec]) = WithoutWhitespace(sections[sec])

(***************************************************************************)
(* Properties of _parse_career_suggestions and suggest_paths.              *)
(***************************************************************************)
\* the lines of the suggestions completion as the parser looks at them
CareerLines ==
    LET ls == Split(career_answer.text, "\n")
    IN  [i \in 1..Len(ls) |-> Strip(ls[i])]

\* the line matches a keyword of the parser: a title keyword together with
\* a colon, or one of the field keywords
LineMatchesKeyword(line) ==
    LET low == Lower(line)
    IN  \/ /\ \E w \in {CareerWords.path, CareerWords.career, CareerWords.role} : Contains(low, w)
           /\ \E j \in 1..Len(line) : line[j] = ":"
        \/ \E w \in {CareerWords.industry, CareerWords.fit, CareerWords.why, CareerWords.salary, CareerWords.timeline} : Contains(low, w)

NoLineMatchesKeyword == \A i \in 1..Len(CareerLines) : ~LineMatchesKeyword(CareerLines[i])

\* C7: when no line of the completion matches a keyword, the parser returns
\* exactly one entry, titled "Custom Career Path", whose description is the
\* whole completion unchanged, and the report shows it in full.
C7_NoKeywordTextKept ==
    (career_pc \in {"roadmaps", "done"} /\ career_answer.ok /\ NoLineMatchesKeyword) =>
        /\ Len(career_suggestions) = 1
        /\ career_suggestions[1] =
               <<<<CareerKey.title, CareerText.CustomCareerPath>>, <<CareerKey.description, career_answer.text>>>>
        /\ (career_pc = "done" => Contains(ReportText(report), career_answer.text))

\* a completion of three lines, one blank and one with a title keyword but
\* no colon, has been parsed into the default entry and reported
C7_Witness ==
    /\ career_pc = "done"
    /\ career_answer.ok
    /\ career_answer.text = CareerFragment.Advice \o CareerFragment.Blank \o CareerFragment.CareerSoFar
    /\ NoLineMatchesKeyword
    /\ Len(career_suggestions) = 1
    /\ DictGet(career_suggestions[1], CareerKey.description, <<>>) = career_answer.text

\* the positions of the pieces of the report that statement stmt appended
PiecesFrom(stmt) == {j \in 1..Len(report) : report[j].stmt = stmt}

\* the i-th smallest element of a set of positions
RECURSIVE NthOf(_, _)
NthOf(S, i) ==
    LET lo == CHOOSE x \in S : \A y \in S : x <= y
    IN  IF i = 1 THEN lo ELSE NthOf(S \ {lo}, i - 1)

\* the title the i-th parsed suggestion is shown under
ShownTitle(i) ==
    IF DictHas(career_suggestions[i], CareerKey.title)
    THEN DictGet(career_suggestions[i], CareerKey.title, <<>>)
    ELSE CareerText.CareerPath \o <<DigitChars[i + 1]>>

\* C10: the report of suggest_paths has exactly min(3, n) titled sections,
\* n the number of parsed suggestions, numbered in order; each is followed,
\* before the next one, by the roadmap block of its title (heading, then the
\* roadmap text, then the separator); after the last section come the
\* "Next Steps" heading, its five numbered items and the closing line, the
\* same text whatever the endpoint answered.
C10_ReportShape ==
    career_pc = "done" =>
        LET n == Len(career_suggestions)
            k == Min(3, n)
            heads == PiecesFrom("section")
            steps == PiecesFrom("next_step")
            first_fixed == Len(report) - 6
        IN  /\ n >= 1
            /\ Cardinality(heads) = k
            /\ report[1].stmt = "header"
            /\ \A i \in 1..k :
                   LET j == NthOf(heads, i)
                       next == IF i < k THEN NthOf(heads, i + 1) ELSE first_fixed
                   IN  /\ report[j].text = <<"#", "#", "#", " ", DigitChars[i + 1], ".", " ">>
                                           \o ShownTitle(i) \o <<"\n", "\n">>
                       /\ j + 3 < next
                       /\ report[next - 3].stmt = "roadmap_heading"
                       /\ report[next - 3].text =
                              CareerText.RoadmapHeadingPrefix \o ShownTitle(i) \o <<"\n", "\n">>
                       /\ report[next - 2].stmt = "roadmap_text"
                       /\ report[next - 2].text =
                              DictGet(roadmaps, ShownTitle(i), <<>>) \o <<"\n", "\n">>
                       /\ report[next - 1].stmt = "separator"
                       /\ \A m \in (j + 1)..(next - 4) : report[m].stmt = "field"
            /\ first_fixed > 1
            /\ report[first_fixed].stmt = "next_steps_heading"
            /\ steps = (first_fixed + 1)..(first_fixed + 5)
            /\ \A m \in steps :
                   MatchesAt(report[m].text, <<DigitChars[m - first_fixed + 1], ".", " ">>, 1)
            /\ report[Len(report)].stmt = "closing"
            /\ SubSeq(report, first_fixed, Len(report)) = NextStepsPieces

\* four suggestions were parsed, one without a title; a roadmap call failed;
\* the report is out with three sections
C10_Witness ==
    /\ career_pc = "done"
    /\ Len(career_suggestions) = 4
    /\ \E i \in 1..3 : ~DictHas(career_suggestions[i], CareerKey.title)
    /\ \E i \in 1..Len(roadmaps) : roadmaps[i][2] = CareerText.RoadmapUnavailable
    /\ \E i \in 1..Len(roadmaps) : roadmaps[i][2] # CareerText.RoadmapUnavailable
    /\ Cardinality(PiecesFrom("section")) = 3

\* what the i-th roadmap call left for its career path: the text the call
\* returned, or the placeholder when it raised
RoadmapOfCall(i) ==
    IF roadmap_calls[i].ok THEN roadmap_calls[i].text ELSE CareerText.RoadmapUnavailable

\* C11 (as claimed): whatever subset of the roadmap calls fails, all
\* min(3, n) calls are made, one per career path in order, and when the loop
\* is over each path has the outcome of its own call: the placeholder if its
\* call failed, the text its call returned otherwise.
C11_FailureAffectsOnlyItsPath ==
    (career_pc = "done") =>
        /\ Len(roadmap_calls) = Min(3, Len(career_suggestions))
        /\ \A i \in 1..Len(roadmap_calls) :
               /\ roadmap_calls[i].title = ShownTitle(i)
               /\ DictHas(roadmaps, ShownTitle(i))
               /\ DictGet(roadmaps, ShownTitle(i), <<>>) = RoadmapOfCall(i)

\* the line is a header line: a title keyword together with a colon
IsHeaderLine(line) ==
    /\ \E w \in {CareerWords.path, CareerWords.career, CareerWords.role} : Contains(Lower(line), w)
    /\ \E j \in 1..Len(line) : line[j] = ":"

\* the text after the colon of a header line, stripped
AfterColon(line) ==
    LET last == CHOOSE j \in 1..Len(line) : line[j] = ":" /\ \A k \in (j + 1)..Len(line) : line[k] # ":"
    IN  Strip(SubSeq(line, last + 1, Len(line)))

NoBlock == [matched |-> FALSE, titled |-> FALSE, title |-> <<>>]

\* the titles as the claim has them, one entry per blank-line-delimited
\* block with a matching line: the text after the colon of the block's first
\* header line, kept whatever lines follow in the block
RECURSIVE HeaderTitles(_, _, _)
HeaderTitles(lines, i, block) ==
    LET closed == IF block.matched THEN <<[titled |-> block.titled, title |-> block.title]>> ELSE <<>>
    IN  IF i > Len(lines) THEN closed
        ELSE IF lines[i] = <<>> THEN closed \o HeaderTitles(lines, i + 1, NoBlock)
        ELSE IF IsHeaderLine(lines[i]) /\ ~block.titled
        THEN HeaderTitles(lines, i + 1, [matched |-> TRUE, titled |-> TRUE, title |-> AfterColon(lines[i])])
        ELSE HeaderTitles(lines, i + 1, [block EXCEPT !.matched = @ \/ LineMatchesKeyword(lines[i])])

\* the title of each parsed suggestion
ParsedTitles ==
    [k \in 1..Len(career_suggestions) |->
        [titled |-> DictHas(career_suggestions[k], CareerKey.title),
         title |-> DictGet(career_suggestions[k], CareerKey.title, <<>>)]]

\* the suggestions were parsed from a completion with a matching line
ParsedFromBlocks ==
    career_pc \in {"roadmaps", "done"} /\ career_answer.ok /\ ~NoLineMatchesKeyword

\* C26 (as claimed): the title of a suggestion is the text after the colon of
\* the block's header line, and a later line of the same block does not
\* overwrite it, also when that line holds "role", "career" or "path" and a
\* colon.
C26_TitleIsHeaderLine ==
    ParsedFromBlocks => ParsedTitles = HeaderTitles(CareerLines, 1, NoBlock)

\* the blocks of the completion have at most one header line each
RECURSIVE OneHeaderPerBlock(_, _, _)
OneHeaderPerBlock(lines, i, seen) ==
    \/ i > Len(lines)
    \/ /\ lines[i] = <<>>
       /\ OneHeaderPerBlock(lines, i + 1, FALSE)
    \/ /\ lines[i] # <<>>
       /\ ~(seen /\ IsHeaderLine(lines[i]))
       /\ OneHeaderPerBlock(lines, i + 1, seen \/ IsHeaderLine(lines[i]))

\* with one header line per block at most, every title is its header's
C26_TitleIsHeaderLineWhenAlone ==
    (ParsedFromBlocks /\ OneHeaderPerBlock(CareerLines, 1, FALSE)) =>
        ParsedTitles = HeaderTitles(CareerLines, 1, NoBlock)

\* the text of the i-th roadmap the report shows, in the order of the sections
ShownRoadmap(i) == report[NthOf(PiecesFrom("roadmap_text"), i)].text

\* the titles of the first three suggestions differ pairwise
TitlesDistinct ==
    \A i, j \in 1..Min(3, Len(career_suggestions)) : i # j => ShownTitle(i) # ShownTitle(j)

\* C24 (as claimed): in the report of suggest_paths the roadmap shown under
\* each of the first three suggestions is the text the model call made for
\* that suggestion returned, or the placeholder when that call raised, also
\* when two suggestions carry the same title or a suggestion has none.
C24_RoadmapShownIsOwnCall ==
    (career_pc = "done") =>
        /\ Cardinality(PiecesFrom("roadmap_text")) = Len(roadmap_calls)
        /\ \A i \in 1..Len(roadmap_calls) :
               ShownRoadmap(i) = RoadmapOfCall(i) \o <<"\n", "\n">>

\* with pairwise different titles, a missing title included, each section
\* shows the roadmap of its own call
C24_OwnRoadmapWhenTitlesDiffer ==
    (career_pc = "done" /\ TitlesDistinct) =>
        /\ Cardinality(PiecesFrom("roadmap_text")) = Len(roadmap_calls)
        /\ \A i \in 1..Len(roadmap_calls) :
               ShownRoadmap(i) = RoadmapOfCall(i) \o <<"\n", "\n">>

(***************************************************************************)
(* Properties of the feature entry points taken together.                  *)
(***************************************************************************)
\* the positions of the pieces of a report that a statement appended
PositionsOf(pieces, stmt) == {j \in 1..Len(pieces) : pieces[j].stmt = stmt}

\* an entry point was called and has not returned
EntryPointRunning ==
    \/ agent_pc \notin {"idle", "done"}
    \/ career_pc \notin {"idle", "done"}
    \/ resume_pc \notin {"idle", "rendered"}
    \/ skill_pc \notin {"idle", "done"}
    \/ cover_pc \notin {"idle", "done"}
    \/ job_pc \notin {"idle", "done"}

\* the condition of some step of the running entry point holds: the
\* conditions of the actions, position by position
EntryPointCanStep ==
    \/ agent_pc = "ready"
    \/ /\ agent_pc = "loop"
       /\ idx >= 1
       /\ \/ idx > Len(models_to_try)
          \/ ~Registered(models_to_try[idx])
          \/ Registered(models_to_try[idx]) /\ ~Callable(idx)
          \/ Callable(idx) /\ idx \in DOMAIN backend /\ backend[idx].ok
          \/ Callable(idx) /\ idx \in DOMAIN backend /\ ~backend[idx].ok
    \/ agent_pc \in {"returned", "raised"}
    \/ career_pc \in {"start", "analyzed"}
    \/ career_pc = "roadmaps"
           /\ Len(roadmap_calls) <= Len(TopSuggestions(career_suggestions))
    \/ resume_pc \in {"start", "parsed"}
    \/ skill_pc = "start" /\ Len(ExtendedSkills(CombinedText, skill_answers.extract)) = 4
    \/ skill_pc \in {"extracted", "gaps", "recommended"}
    \/ cover_pc \in {"start", "generated"}
    \/ job_pc = "start"
    \/ job_pc = "filtered" /\ Len(analyzed_jobs) < Len(jobs)
    \/ job_pc = "analyzed"

\* process_message returns a text, the apology when _invoke_claude raised
AgentReturnsText ==
    agent_pc = "done" =>
        /\ reply.kind = "text"
        /\ invoke_out.kind = "raise" => reply.text = ApologyText

\* suggest_paths: the placeholder suggestion when the suggestions call failed,
\* the roadmap placeholder under every path whose roadmap call failed, and
\* the sections and the next steps all there
CareerPlaceholdersShown ==
    career_pc = "done" =>
        LET texts == PiecesFrom("roadmap_text")
        IN  /\ ~career_answer.ok => career_suggestions = ErrorSuggestions
            /\ Cardinality(PiecesFrom("section")) = Len(roadmap_calls)
            /\ Cardinality(texts) = Len(roadmap_calls)
            /\ \A i \in 1..Len(roadmap_calls) :
                   ~roadmap_calls[i].ok =>
                       report[NthOf(texts, i)].text =
                           CareerText.RoadmapUnavailable \o <<"\n", "\n">>
            /\ Len(report) > 7
            /\ SubSeq(report, Len(report) - 6, Len(report)) = NextStepsPieces

\* create_resume: the basic resume when the call failed
ResumeFallbackRendered ==
    (resume_pc = "rendered" /\ ~resume_answer.ok) =>
            rendered = FormatResume(CreateBasicResumeContent(personal_info, ArgExperience,
                                                             ArgSkills))

\* analyze returns a text; in the report the placeholder stands for each of
\* the two analyses whose call failed, between the same headings
SkillPlaceholdersShown ==
    skill_pc = "done" =>
        /\ skill_result.kind = "text"
        /\ Len(skill_result.pieces) >= 1
        /\ (skill_result.pieces[1].stmt # "error") =>
               LET pieces == skill_result.pieces
                   gap == PositionsOf(pieces, "gap_analysis")
                   recs == PositionsOf(pieces, "recommendations")
               IN  /\ Cardinality(gap) = 1
                   /\ Cardinality(recs) = 1
                   /\ ~skill_answers.gap =>
                          \A j \in gap :
                              pieces[j].text = SkillText.NoGapAnalysis \o <<"\n", "\n">>
                   /\ ~skill_answers.recs =>
                          \A j \in recs :
                              pieces[j].text = SkillText.NoRecommendations \o <<"\n", "\n">>
                   /\ \A j \in gap : pieces[j - 1].stmt = "gap_heading"
                   /\ \A j \in recs : pieces[j - 1].stmt = "recommendations_heading"
                   /\ Cardinality(PositionsOf(pieces, "next_step")) = 5

\* create_cover_letter returns a text, the placeholder letter when the call failed
CoverPlaceholderShown ==
    cover_pc = "done" =>
        /\ cover_result.kind = "text"
        /\ ~cover_answer.ok => cover_result.text = FormatCoverLetter(CoverText.Unable)

\* search: every job whose analysis call failed carries the fixed analysis,
\* and the report has a section for each of the first five jobs, each with
\* its summary of the analysis, and the tips
JobPlaceholdersShown ==
    job_pc = "done" =>
        LET titles == PositionsOf(job_result, "title")
            rules == PositionsOf(job_result, "rule")
            shown == Min(5, Len(jobs))
        IN  /\ Len(analyzed_jobs) = Len(jobs)
            /\ \A i \in 1..Len(job_calls) :
                   ~job_calls[i] =>
                       \E k \in 1..Len(analyzed_jobs) :
                           /\ analyzed_jobs[k].title = jobs[i].title
                           /\ analyzed_jobs[k].company = jobs[i].company
                           /\ analyzed_jobs[k].match_analysis.analysis
                                  = JobText.FallbackAnalysis
            /\ Cardinality(titles) = shown
            /\ Cardinality(rules) = shown
            /\ \A k \in 1..shown :
                   analyzed_jobs[k].match_analysis.analysis = JobText.FallbackAnalysis =>
                       LET j == NthOf(rules, k) - 1
                       IN  /\ job_result[j].stmt = "analysis"
                           /\ job_result[j].text =
                                  JobText.AnalysisLabel
                                      \o Split(JobText.FallbackAnalysis, ".")[1]
                                      \o JobText.Dot \o JobText.ParagraphEnd
            /\ Cardinality(PositionsOf(job_result, "tips")) = 6

\* C12 (as claimed): whatever model calls succeed and fail, an entry point
\* that was called goes on until it returns, and what it returns is a text;
\* in that text the static placeholder of the step stands for every step
\* whose call failed, and the rest of the report is rendered around it.
C12_EntryPointsReturnTextWithPlaceholders ==
    /\ EntryPointRunning => EntryPointCanStep
    /\ AgentReturnsText
    /\ CareerPlaceholdersShown
    /\ ResumeFallbackRendered
    /\ SkillPlaceholdersShown
    /\ CoverPlaceholderShown
    /\ JobPlaceholdersShown

(***************************************************************************)
(* Properties of the parsers of completions taken together.                *)
(***************************************************************************)
\* a Python str: a sequence of characters
IsText(x) == x \in Seq(STRING)

\* a Python dict of str to str, not empty
IsTextDict(d) ==
    /\ Len(d) >= 1
    /\ \A k \in 1..Len(d) : IsText(d[k][1]) /\ IsText(d[k][2])
    /\ \A k, l \in 1..Len(d) : d[k][1] = d[l][1] => k = l

\* the text holds a character of the set
HoldsOneOf(text, chars) == \E i \in 1..Len(text) : text[i] \in chars

\* the parsers other than _extract_match_score return a value of their type
OtherParsersReturnValues ==
    /\ resume_pc = "parsed" =>
           /\ DOMAIN sections = SectionNames \cup {"name", "contact_info"}
           /\ \A f \in DOMAIN sections : IsText(sections[f])
           /\ (\A i \in 1..Len(CompletionLines) :
                   SectionTrigger(CompletionLines[i]) = "none") =>
                  \A f \in SectionNames : sections[f] = <<>>
    /\ career_pc = "roadmaps" =>
           /\ Len(career_suggestions) >= 1
           /\ \A i \in 1..Len(career_suggestions) : IsTextDict(career_suggestions[i])
           /\ NoLineMatchesKeyword =>
                  career_suggestions = <<DefaultSuggestion(career_answer.text)>>
    /\ paths_pc = "done" =>
           /\ \A i \in 1..Len(paths) :
                  IsTextDict(paths[i]) /\ DictHas(paths[i], PathWords.title)
           /\ ~HoldsOneOf(paths_response, {":"}) => paths = <<>>

\* C13: on every completion, the empty one and those without headers,
\* colons or digits included, each parser returns a value of its type:
\* _extract_match_score an integer of 0..100, from the bands when the text
\* has no digit; _parse_resume_content the dict of the seven fields, the
\* five sections empty when the completion has no header line;
\* _parse_career_suggestions a list of at least one dict, the placeholder
\* entry when no line is recognised; _extract_paths a list of dicts that
\* each have a title, the empty list when the text has no colon.
C13_ParsersReturnValues ==
    /\ score_pc # "raised"
    /\ score_pc = "start" =>
           FirstMatchingPattern(analysis) \in 0..Len(score_patterns)
    /\ score_pc = "done" =>
           /\ score \in 0..100
           /\ ~HoldsOneOf(analysis, DecimalDigitChars) => score_branch = 4 /\ score \in 40..95
    /\ OtherParsersReturnValues

\* a response of several lines, one of them naming a path but without any
\* colon, went through _extract_paths and gave the empty list
C13_Witness ==
    /\ paths_pc = "done"
    /\ Contains(paths_response, PathFragment.NoColon)
    /\ Len(Split(paths_response, "\n")) >= 3
    /\ paths = <<>>

(***************************************************************************)
(* Properties of the operations of AWSServices.                            *)
(***************************************************************************)
\* the types of the values an operation is declared to return
PromisedTypes(op) ==
    IF op \in {"save_user_profile", "update_application_status"} THEN {"bool"}
    ELSE IF op \in {"save_career_plan", "track_job_application"} THEN {"str"}
    ELSE IF op = "get_user_profile" THEN {"dict", "NoneType"}
    ELSE {"list"}

CallNumbers == 1..Len(gateway_log)

\* every call returned a value of its promised type; a save or an update
\* returned success exactly when the table took the write; a read that the
\* table did not answer returned None or the empty list
OutcomesAreValues ==
    \A i \in CallNumbers :
        LET call == gateway_log[i]
        IN  /\ call.returned.type \in PromisedTypes(call.op)
            /\ call.returned.type = "bool" => call.returned.value = call.accepted
            /\ call.returned.type = "str" =>
                   /\ (call.returned.value # <<>>) = call.accepted
                   /\ call.accepted =>
                          call.returned.value \in {DictGet(call.item, k, <<>>) :
                              k \in {GatewayText.plan_id, GatewayText.application_id}}
            /\ ~call.accepted /\ call.returned.type = "list" => call.returned.value = <<>>
            /\ ~call.accepted => call.returned.type # "dict"

\* a read returns records of the user it was asked for only
ReadsAreOfTheUser ==
    \A i \in CallNumbers :
        LET call == gateway_log[i]
        IN  /\ call.returned.type = "dict" =>
                   DictGet(call.returned.value, GatewayText.user_id, <<>>) = call.key
            /\ call.returned.type = "list" =>
                   \A k \in 1..Len(call.returned.value) :
                       DictGet(call.returned.value[k], GatewayText.user_id, <<>>) = call.key

\* the j-th call reads what the i-th call saved: the profile of the same
\* user with no save for that user in between, or the plans or applications
\* of the same user
ReadsBack(i, j) ==
    /\ i < j
    /\ gateway_log[i].accepted
    /\ gateway_log[i].key = gateway_log[j].key
    /\ \/ /\ gateway_log[i].op = "save_user_profile"
          /\ gateway_log[j].op = "get_user_profile"
          /\ \A m \in (i + 1)..(j - 1) :
                 ~(/\ gateway_log[m].op = "save_user_profile"
                   /\ gateway_log[m].key = gateway_log[i].key
                   /\ gateway_log[m].accepted)
       \/ /\ gateway_log[i].op = "save_career_plan"
          /\ gateway_log[j].op = "get_user_career_plans"
       \/ /\ gateway_log[i].op = "track_job_application"
          /\ gateway_log[j].op = "get_user_applications"
          /\ \A m \in (i + 1)..(j - 1) : gateway_log[m].op # "update_application_status"

\* the j-th call returned the record the i-th call saved
ReturnedSaved(i, j) ==
    LET saved == gateway_log[i].item
        got == gateway_log[j].returned
    IN  IF got.type = "list"
        THEN \E k \in 1..Len(got.value) : got.value[k] = saved
        ELSE got.type = "dict" /\ got.value = saved

MatchingJobs ==
    SelectSeq(job_database,
              LAMBDA job : /\ TitleMatch(job, SplitWhitespace(Lower(job_role)))
                           /\ LocationMatch(job, job_location))

\* the job without its match_analysis, as _filter_jobs produced it
AsFiltered(job) ==
    [title |-> job.title, company |-> job.company, location |-> job.location,
     salary |-> job.salary, description |-> job.description,
     requirements |-> job.requirements, posted_date |-> job.posted_date,
     company_size |-> job.company_size, industry |-> job.industry]

\* the list _filter_jobs returned
FilteredJobs == [i \in 1..Len(jobs) |-> AsFiltered(jobs[i])]

\* _filter_jobs has returned
JobsFiltered == job_pc \in {"filtered", "analyzed", "done"}

\* the statements of _format_job_results that the report was built by
ReportStatements == {job_result[i].stmt : i \in 1..Len(job_result)}

\* C22: for every role and location _filter_jobs returns 3 to 5 jobs: the
\* matching database jobs when there are at least 3 of them, else these
\* followed by generated jobs up to exactly 5; so the report of search is
\* never the "No Jobs Found" text and never has the "Showing top 5" footer.
C22_FilterReturnsThreeToFive ==
    /\ JobsFiltered =>
           /\ Len(jobs) \in 3..5
           /\ SubSeq(FilteredJobs, 1, Len(MatchingJobs)) = MatchingJobs
           /\ Len(MatchingJobs) >= 3 => FilteredJobs = MatchingJobs
           /\ Len(MatchingJobs) < 3 => Len(jobs) = 5
    /\ job_pc = "done" =>
           /\ "none" \notin ReportStatements
           /\ "more" \notin ReportStatements
           /\ "header" \in ReportStatements

\* C22 witness: two database jobs matched, three generated jobs were added,
\* and the report was made
C22_Witness ==
    /\ job_pc = "done"
    /\ Len(MatchingJobs) = 2
    /\ Len(jobs) = 5
    /\ jobs[3].industry = JobText.Technology
    /\ jobs[3].title = job_role \o JobText.TitleSep \o JobChoices.levels[1]

\* the ways to read the sorted list as a reordering of the dicts of the
\* filtered list
Reorderings ==
    {p \in [1..Len(analyzed_jobs) -> 1..Len(jobs)] :
        /\ \A i, j \in 1..Len(analyzed_jobs) : i # j => p[i] # p[j]
        /\ \A i \in 1..Len(analyzed_jobs) : analyzed_jobs[i] = jobs[p[i]]}

\* the pieces of the report appended by the statement stmt, in order
PiecesOf(stmt) == SelectSeq(job_result, LAMBDA piece : piece.stmt = stmt)

\* the number printed on a "Match Score" line
PrintedScore(text) ==
    ParseInt(SubSeq(text, Len(JobText.ScoreLabel) + 1, Len(text) - Len(JobText.ScoreTail)))

\* C23: the report of search lists the jobs by non-increasing match score,
\* jobs of equal score in the order _filter_jobs gave them, and the score
\* printed for a job is the score it was sorted by.
C23_ReportSortedByScore ==
    job_pc = "done" =>
        /\ \A i, j \in 1..Len(analyzed_jobs) :
               i < j => analyzed_jobs[i].match_analysis.score
                           >= analyzed_jobs[j].match_analysis.score
        /\ \E p \in Reorderings :
               \A i, j \in 1..Len(analyzed_jobs) :
                   (/\ i < j
                    /\ analyzed_jobs[i].match_analysis.score
                          = analyzed_jobs[j].match_analysis.score) => p[i] < p[j]
        /\ Len(PiecesOf("score")) = Len(analyzed_jobs)
        /\ Len(PiecesOf("title")) = Len(analyzed_jobs)
        /\ \A i \in 1..Len(analyzed_jobs) :
               /\ PrintedScore(PiecesOf("score")[i].text)
                      = analyzed_jobs[i].match_analysis.score
               /\ Contains(PiecesOf("title")[i].text, analyzed_jobs[i].title)

\* C23 witness: the second job of the filtered list got a lower score than
\* the third and stands behind it in the report, and the first and the
\* third, different jobs of equal score, stand in the order of the filtered
\* list
C23_Witness ==
    /\ job_pc = "done"
    /\ Len(analyzed_jobs) >= 3
    /\ analyzed_jobs[1] = jobs[1]
    /\ analyzed_jobs[2] = jobs[3]
    /\ analyzed_jobs[Len(analyzed_jobs)] = jobs[2]
    /\ AsFiltered(jobs[1]) # AsFiltered(jobs[3])
    /\ analyzed_jobs[1].match_analysis.score = analyzed_jobs[2].match_analysis.score
    /\ analyzed_jobs[2].match_analysis.score > jobs[2].match_analysis.score
    /\ jobs[2].match_analysis.score \notin {40, 60, 70, 85}

(***************************************************************************)
(* Properties of the service objects across requests.                      *)
(***************************************************************************)
\* the four tables are as the constructors built them
TablesAsConstructed ==
    /\ searcher_database = job_database
    /\ model_configs = ModelConfigs
    /\ analyzer_categories = skill_categories
    /\ planner_paths = career_paths

RequestNumbers == 1..Len(request_log)

\* two served requests of one handler with the same arguments that got the
\* same answers from the endpoint
SameRequest(i, j) ==
    /\ request_log[i].op = request_log[j].op
    /\ request_log[i].arguments = request_log[j].arguments
    /\ request_log[i].responses = request_log[j].responses

\* C21 (as claimed): no in-memory state crosses requests: after any sequence
\* of search, suggest_paths, analyze, create_resume and process_message the
\* tables job_database, model_configs, skill_categories and career_paths are
\* as the constructors built them, and a request returns what every other
\* request of the same arguments and the same model responses returns. A
\* search also takes numbers from the random module and the day from the
\* clock.
C21_ResultFromArgumentsAndResponses ==
    /\ TablesAsConstructed
    /\ \A i, j \in RequestNumbers :
           SameRequest(i, j) => request_log[i].result = request_log[j].result

\* C21 (amended): the tables are as the constructors built them in every
\* state of every sequence of the five calls, and a request returns what
\* every other request of the same arguments, the same model responses and
\* the same draws of the random module and day of the clock returns,
\* whatever was served before it.
C21_TablesUnchangedAcrossRequests ==
    /\ TablesAsConstructed
    /\ \A i, j \in RequestNumbers :
           (SameRequest(i, j) /\ request_log[i].draws = request_log[j].draws) =>
               request_log[i].result = request_log[j].result

\* C21 witness: two searches were served one after the other with the same
\* arguments, answers and draws, the job of the table was analysed first,
\* the last call of each raised and its job got a drawn score; both returned
\* the same string, and the tables are as they were
C21_Witness ==
    /\ Len(request_log) = 2
    /\ request_log[1].op = "search"
    /\ SameRequest(1, 2)
    /\ request_log[1].draws = request_log[2].draws
    /\ ~request_log[1].responses[1].raised
    /\ request_log[1].responses[5].raised
    /\ request_log[1].draws.scores[5] \in FallbackScores
    /\ Len(MatchingPlaces(searcher_database, request_log[1].arguments[1],
                          request_log[1].arguments[2])) = 1
    /\ request_log[1].result = request_log[2].result
    /\ request_log[1].result # <<>>
    /\ TablesAsConstructed

(***************************************************************************)
(* Properties of the progress tracker.                                     *)
(***************************************************************************)
\* C30 (as claimed): after any sequence of update_progress calls on a tracker
\* made by create_progress_tracker(total_steps), current_step is the number
\* of entries of completed_steps and does not exceed total_steps.
C30_CurrentStepWithinTotal ==
    tracker_pc = "tracking" =>
        /\ tracker.current_step = Len(tracker.completed_steps)
        /\ tracker.current_step <= tracker.total_steps

\* current_step is the number of entries of completed_steps, the entries
\* are in the order of their completion, and once a step is recorded an
\* estimate is set
C30_CurrentStepCountsEntries ==
    tracker_pc = "tracking" =>
        /\ tracker.current_step = Len(tracker.completed_steps)
        /\ \A i, j \in 1..Len(tracker.completed_steps) :
               i < j => tracker.completed_steps[i].completed_at
                            <= tracker.completed_steps[j].completed_at
        /\ tracker.estimated_completion.set = (tracker.current_step > 0)

(***************************************************************************)
(* Properties of save_user_profile.                                        *)
(***************************************************************************)
\* the positions of the log at which save_user_profile stored a profile of
\* the user
ProfileSaves(user_id) ==
    {i \in 1..Len(gateway_log) :
        /\ gateway_log[i].op = "save_user_profile"
        /\ gateway_log[i].key = user_id
        /\ gateway_log[i].accepted}

\* the profiles of the user that the table holds
StoredProfiles(user_id) ==
    SelectSeq(user_profiles, LAMBDA item : DictGet(item, GatewayText.user_id, <<>>) = user_id)

\* the keys of an item
KeysOf(item) == {item[k][1] : k \in 1..Len(item)}

C29_LastSaveStored ==
    \A user_id \in UserIds :
        LET saves == ProfileSaves(user_id)
            last == CHOOSE i \in saves : \A j \in saves : j <= i
        IN  saves # {} => StoredProfiles(user_id) = <<gateway_log[last].item>>

(***************************************************************************)
(* Properties of save_document_to_s3.                                      *)
(***************************************************************************)
\* the calls that returned after put_object stored their content
StoredSaves == {i \in 1..Len(s3_log) : s3_log[i].stored}

\* C27 (as claimed): each successful save stores its content under a key no
\* earlier successful save used, so no sequence or interleaving of saves
\* overwrites a document saved before: every document a save stored is
\* still in the bucket under the key the save returned.
C27_NoSavedDocumentOverwritten ==
    /\ \A i, j \in StoredSaves : i # j => s3_log[i].key # s3_log[j].key
    /\ \A i \in StoredSaves :
           /\ DictHas(s3_objects, s3_log[i].key)
           /\ DictGet(s3_objects, s3_log[i].key, <<>>) = Utf8(s3_log[i].content)

\* the user, document type and second of the clock that a key names
SameUserTypeSecond(i, j) == s3_log[i].key = s3_log[j].key

\* the bucket holds, under each key a save stored to, the content of the
\* last save served for that key, and the address returned names the key
C27_LastSaveOfKeyKept ==
    \A i \in StoredSaves :
        /\ s3_log[i].returned = DocumentUrl(s3_log[i].key)
        /\ DictHas(s3_objects, s3_log[i].key)
        /\ LET last == CHOOSE j \in StoredSaves :
                           /\ SameUserTypeSecond(i, j)
                           /\ \A k \in StoredSaves : SameUserTypeSecond(i, k) => k <= j
           IN  DictGet(s3_objects, s3_log[i].key, <<>>) = Utf8(s3_log[last].content)

(***************************************************************************)
(* Properties of chat_with_agent.                                          *)
(***************************************************************************)
\* C28: every call of chat_with_agent, whether process_message answered or
\* apologised, returns ("", history) with exactly one pair appended to the
\* history it was called with, the pair of its message and of the response,
\* the earlier pairs unchanged and in order; a call that was made goes on
\* to return, and the chatbot shows what the last call returned unless the
\* clear button emptied it since.
C28_OnePairAppended ==
    /\ chat_pc \in {"called", "answered"} =>
           /\ ~chat_returned.returned
           /\ ENABLED (AgentAnswers \/ AgentApologises \/ ChatAppendsAndReturns)
    /\ chat_pc = "returned" =>
           /\ chat_returned.returned
           /\ chat_returned.box = <<>>
           /\ Len(chat_returned.history) = Len(chat_called_with) + 1
           /\ SubSeq(chat_returned.history, 1, Len(chat_called_with)) = chat_called_with
           /\ chat_returned.history[Len(chat_returned.history)]
                  = <<chat_message, chat_response>>
           /\ chat_history \in {<<>>, chat_returned.history}

\* C28 witness: the fourth call, on a history of three pairs, has returned
\* after process_message apologised; an earlier call was answered, and the
\* chatbot shows the four pairs
C28_Witness ==
    /\ chat_pc = "returned"
    /\ Len(chat_called_with) = 3
    /\ chat_response = ApologyText
    /\ chat_returned.history[4] = <<chat_message, ApologyText>>
    /\ chat_history = chat_returned.history
    /\ \E k \in 1..3 : chat_history[k][2] # ApologyText

(***************************************************************************)
(* Properties of _build_context.                                           *)
(***************************************************************************)
\* how many times sub stands in s
CountOf(s, sub) == Cardinality({i \in 1..Len(s) : MatchesAt(s, sub, i)})

\* the pairs the claim says are rendered: the last min(3, len(history)),
\* in the order of the history
RenderedPairs ==
    LET n == Len(context_history)
        k == Min(3, n)
    IN  [i \in 1..k |-> context_history[n - k + i]]

\* the history section of the prompt: none for an empty history, else the
\* heading and one "User: ... / Assistant: ..." block per rendered pair
HistorySection ==
    IF context_history = <<>> THEN <<>>
    ELSE ContextText.Previous
         \o Concat([i \in 1..Len(RenderedPairs) |->
                       ContextText.User \o RenderedPairs[i][1] \o ContextText.Newline
                       \o ContextText.Assistant \o RenderedPairs[i][2] \o ContextText.Gap])

\* C20: the prompt of _build_context is the system prompt, then the history
\* section with exactly the last min(3, len(history)) pairs in their order
\* (at most 3, and no section at all for an empty history), then the current
\* user message and the closing instruction.
C20_LastThreeExchangesRendered ==
    context_pc = "done" =>
        /\ context = system_prompt \o ContextText.Gap \o HistorySection
                      \o ContextText.Current \o context_message \o ContextText.Gap
                      \o ContextText.Provide
        /\ CountOf(context, ContextText.User) = Min(3, Len(context_history))
        /\ CountOf(context, ContextText.Assistant) = Min(3, Len(context_history))
        /\ Contains(context, ContextText.Previous) <=> context_history # <<>>

\* C20 witness: a history of four exchanges whose first is "thanks"; the
\* prompt holds the other three and not that one
C20_Witness ==
    /\ context_pc = "done"
    /\ Len(context_history) = 4
    /\ context_history[1][1] = ChatText.Thanks
    /\ context_history[2] # context_history[3]
    /\ \A i \in 2..4 : context_history[i][1] # ChatText.Thanks
    /\ ~Contains(context, ContextText.User \o ChatText.Thanks)
    /\ Contains(context, RenderExchange(context_history[2]) \o RenderExchange(context_history[3])
                             \o RenderExchange(context_history[4]) \o ContextText.Current)

====
